---------------------------- MODULE Spec2Model ----------------------------
(***************************************************************************)
(* A model of src/game31.py: the chunked block store (World), the entity   *)
(* physics step (Entity.update_physics), the player and enemy updates and  *)
(* the frame loop of main().                                               *)
(*                                                                         *)
(* Lengths and velocities are fixed-point integers: one model unit is 1/U  *)
(* of a pixel, so that GRAVITY (0.5), the block-break step (0.5) and the   *)
(* enemy speeds (1, 1.5, 0.7 and the ice golem's 0.35) are all whole       *)
(* numbers of units.  Python objects (Block, Enemy, Item, Projectile) are  *)
(* records carrying an id field, which stands for the object's identity:   *)
(* list.remove and `in` compare these objects by identity.                 *)
(***************************************************************************)
EXTENDS Integers, Sequences, FiniteSets, TLC

VARIABLES
    world,                  \* the global World object: blocks, grid, goal_flag
    player,                 \* main's player
    enemies,                \* the global list of Enemy objects
    items,                  \* the global list of Item objects
    projectiles,            \* the global list of Projectile objects
    main,                   \* main's other local variables
    pc,                     \* where main's loop stands within the frame
    todo,                   \* the rest of the list copy a for loop iterates
    raised,                 \* the exception that ended the last call, or "none"
    next_id,                \* allocation counter: the identity of the next object
    block_refs,             \* Block objects a caller of the World API still holds
    entity                  \* an Entity stepped on its own by update_physics

gameVars == <<player, enemies, items, projectiles, main, pc, todo>>

vars == <<world, player, enemies, items, projectiles, main, pc, todo,
          raised, next_id, block_refs, entity>>

-----------------------------------------------------------------------------
(* Program constants (src/game31.py lines 15-22).                          *)

U == 4 * 5

SCREEN_WIDTH == 800
SCREEN_HEIGHT == 600
TILE_SIZE == 40
PLAYER_SIZE == 30
CHUNK_SIZE == 8
RADIUS == 3

\* GRAVITY = 0.5 pixel per frame per frame
GRAVITY == U \div 2

JUMP_STRENGTH == 0 - 20
WORLD_WIDTH == 200 * TILE_SIZE
BOSS_ARENA_WIDTH == 15 * TILE_SIZE

Px(n) == n * U
TILE == Px(TILE_SIZE)
CHUNK_SPAN == TILE * CHUNK_SIZE

-----------------------------------------------------------------------------
(* Sequence helpers.                                                       *)

RECURSIVE SeqRemoveFirst(_, _)
\* list.remove(x): the list without its first element equal to x.
SeqRemoveFirst(s, x) ==
    IF s = <<>> THEN <<>>
    ELSE IF Head(s) = x THEN Tail(s)
    ELSE <<Head(s)>> \o SeqRemoveFirst(Tail(s), x)

InSeq(x, s) == \E i \in 1..Len(s) : s[i] = x

Count(x, s) == Cardinality({i \in 1..Len(s) : s[i] = x})

-----------------------------------------------------------------------------
(* Block and World.                                                        *)

None == [id |-> 0]

Inf == -1

\* Block.__init__: the health a block type starts with; Inf is float('inf').
BlockHealth(block_type) ==
    CASE block_type = "stone" -> 5
      [] block_type = "dirt" -> 3
      [] block_type = "wood" -> 4
      [] block_type = "iron" -> 8
      [] block_type = "bedrock" -> Inf
      [] OTHER -> 1

Block(id, x, y, block_type) ==
    [id |-> id, x |-> x, y |-> y, type |-> block_type,
     health |-> BlockHealth(block_type)]

\* World.__init__ and the reset that opens generate_level_1/2.
EmptyWorld ==
    [blocks |-> <<>>, grid |-> <<>>, goal_flag |-> None]

\* int(v // (TILE_SIZE * CHUNK_SIZE)): floor division.
chunk_of(v) == v \div CHUNK_SPAN

chunk_key(block) == <<chunk_of(block.x), chunk_of(block.y)>>

wrong_chunk_key(block) == <<block.x \div TILE, block.y \div TILE>>

grid_keys(w) == {w.grid[i].key : i \in 1..Len(w.grid)}

\* self.grid[key], for a key that is in the grid.
grid_at(w, key) ==
    LET i == CHOOSE j \in 1..Len(w.grid) : w.grid[j].key = key
    IN  w.grid[i].list

grid_put(w, key, list) ==
    IF key \in grid_keys(w)
    THEN [i \in 1..Len(w.grid) |->
            IF w.grid[i].key = key THEN [key |-> key, list |-> list]
            ELSE w.grid[i]]
    ELSE Append(w.grid, [key |-> key, list |-> list])

add_block_wrong_chunk(w, block) ==
    LET key == wrong_chunk_key(block)
        old == IF key \in grid_keys(w) THEN grid_at(w, key) ELSE <<>>
    IN  [w EXCEPT !.blocks = Append(w.blocks, block),
                  !.grid = grid_put(w, key, Append(old, block))]

\* World.add_block
add_block(w, block) ==
    LET key == chunk_key(block)
        old == IF key \in grid_keys(w) THEN grid_at(w, key) ELSE <<>>
    IN  [w EXCEPT !.blocks = Append(w.blocks, block),
                  !.grid = grid_put(w, key, Append(old, block))]

\* self.blocks.remove(block) raises ValueError when the block is not there.
remove_block_raises(w, block) == ~InSeq(block, w.blocks)

remove_block_wrong_chunk(w, block) ==
    LET key == wrong_chunk_key(block)
    IN  IF key \in grid_keys(w) /\ InSeq(block, grid_at(w, key))
        THEN [w EXCEPT !.blocks = SeqRemoveFirst(w.blocks, block),
                       !.grid = grid_put(w, key,
                                    SeqRemoveFirst(grid_at(w, key), block))]
        ELSE [w EXCEPT !.blocks = SeqRemoveFirst(w.blocks, block)]

\* World.remove_block, for a call that does not raise.
remove_block(w, block) ==
    LET key == chunk_key(block)
    IN  IF key \in grid_keys(w) /\ InSeq(block, grid_at(w, key))
        THEN [w EXCEPT !.blocks = SeqRemoveFirst(w.blocks, block),
                       !.grid = grid_put(w, key,
                                    SeqRemoveFirst(grid_at(w, key), block))]
        ELSE [w EXCEPT !.blocks = SeqRemoveFirst(w.blocks, block)]

\* The place of chunk key in the visiting order of get_nearby_blocks' two
\* nested loops (dx outer, dy inner) around chunk (cx, cy); -1 when the loops
\* do not visit it.
visit_rank(key, cx, cy) ==
    LET dx == key[1] - cx
        dy == key[2] - cy
    IN  IF dx < 0 - RADIUS \/ dx > RADIUS \/ dy < 0 - RADIUS \/ dy > RADIUS
        THEN 0 - 1
        ELSE (dx + RADIUS) * (2 * RADIUS + 1) + (dy + RADIUS)

RECURSIVE nearby_from(_, _, _, _)
\* nearby.extend(self.grid[key]) for each visited key present in the grid, in
\* visiting order: the chunk lists of rank above `after`, lowest rank first.
nearby_from(w, cx, cy, after) ==
    LET left == {g \in 1..Len(w.grid) : visit_rank(w.grid[g].key, cx, cy) > after}
    IN  IF left = {} THEN <<>>
        ELSE LET g == CHOOSE h \in left : \A k \in left :
                          visit_rank(w.grid[h].key, cx, cy)
                              <= visit_rank(w.grid[k].key, cx, cy)
             IN  w.grid[g].list
                    \o nearby_from(w, cx, cy, visit_rank(w.grid[g].key, cx, cy))

get_own_chunk_blocks(w, x, y) ==
    IF <<chunk_of(x), chunk_of(y)>> \in grid_keys(w)
    THEN grid_at(w, <<chunk_of(x), chunk_of(y)>>) ELSE <<>>

\* World.get_nearby_blocks(x, y), with the default radius
get_nearby_blocks(w, x, y) == nearby_from(w, chunk_of(x), chunk_of(y), 0 - 1)

-----------------------------------------------------------------------------
(* Entity.                                                                 *)

\* Entity.__init__
Entity(x, y, width, height) ==
    [x |-> x, y |-> y, width |-> width, height |-> height,
     vel_x |-> 0, vel_y |-> 0, on_ground |-> FALSE]

\* Entity.check_collision
check_collision(e, block) ==
    /\ e.x + e.width > block.x
    /\ e.x < block.x + TILE
    /\ e.y + e.height > block.y
    /\ e.y < block.y + TILE

resolve_collision_no_ground(e, block) ==
    IF ~check_collision(e, block) THEN e
    ELSE IF e.vel_y > 0 /\ e.y + e.height > block.y /\ e.y < block.y
    THEN [e EXCEPT !.y = block.y - e.height, !.vel_y = 0]
    ELSE e

\* The body of update_physics' loop over the nearby blocks, for one block.
resolve_collision(e, block) ==
    IF ~check_collision(e, block) THEN e
    ELSE IF e.vel_y > 0 /\ e.y + e.height > block.y /\ e.y < block.y
    THEN [e EXCEPT !.y = block.y - e.height, !.vel_y = 0, !.on_ground = TRUE]
    ELSE IF e.vel_y < 0 /\ e.y < block.y + TILE
                /\ e.y + e.height > block.y + TILE
    THEN [e EXCEPT !.y = block.y + TILE, !.vel_y = 0]
    ELSE IF e.vel_x > 0 /\ e.x + e.width > block.x /\ e.x < block.x
    THEN [e EXCEPT !.x = block.x - e.width, !.vel_x = 0]
    ELSE IF e.vel_x < 0 /\ e.x < block.x + TILE
                /\ e.x + e.width > block.x + TILE
    THEN [e EXCEPT !.x = block.x + TILE, !.vel_x = 0]
    ELSE e

RECURSIVE resolve_all(_, _, _)
\* for block in nearby_blocks: ..., from the i-th block on.
\* (The entity reached so far is bound as a value, v, before the next block
\* is tried, so that it is computed once.)
resolve_all(e, nearby_blocks, i) ==
    IF i > Len(nearby_blocks) THEN e
    ELSE resolve_all(
            CHOOSE r \in {resolve_collision(v, nearby_blocks[i]) : v \in {e}} : TRUE,
            nearby_blocks, i + 1)

\* Lines 126-130 of update_physics: gravity and the move, before the
\* collisions are resolved.
after_move(e) ==
    [e EXCEPT !.vel_y = e.vel_y + GRAVITY,
              !.x = e.x + e.vel_x,
              !.y = e.y + e.vel_y + GRAVITY,
              !.on_ground = FALSE]

\* Entity.update_physics; the blocks come from the global world.  (The move
\* and the block list are bound as values, so that each is computed once.)
update_physics(e, w) ==
    CHOOSE r \in
        {resolve_all(m, nearby_blocks, 1) :
            m \in {after_move(e)},
            nearby_blocks \in {get_nearby_blocks(w, after_move(e).x, after_move(e).y)}} : TRUE

-----------------------------------------------------------------------------
(* Player, Enemy, Projectile, Item, GoalFlag.  Fields that only the        *)
(* drawing code reads (animation_frame, attacking, attack_frame,           *)
(* max_health, glow, bob_offset, wave_offset) are left out.                *)

InventoryKinds == {"grass", "dirt", "stone", "wood", "coin", "iron"}

\* Player.__init__: the starting inventory
StartInventory ==
    [k \in InventoryKinds |->
        CASE k = "grass" -> 20 [] k = "dirt" -> 20 [] k = "stone" -> 10
          [] k = "wood" -> 5 [] OTHER -> 0]

\* Player.__init__
Player(x, y) ==
    [x |-> x, y |-> y,
     width |-> Px(PLAYER_SIZE), height |-> (Px(PLAYER_SIZE) * 3) \div 2,
     vel_x |-> 0, vel_y |-> 0, on_ground |-> FALSE,
     is_jumping |-> FALSE, facing |-> "right",
     inventory |-> StartInventory, selected_block |-> "grass",
     health |-> 100, invincible |-> 0, attack_cooldown |-> 0]

\* Enemy.__init__; idle_timer is random.randint(0, 100), drawn by the caller.
\* speed is in units per frame: 1, 1.5, 0.7 and 0.8 pixel.
Enemy(id, x, y, enemy_type, idle_timer) ==
    [id |-> id, x |-> x, y |-> y,
     width |-> IF enemy_type = "boss" THEN Px(PLAYER_SIZE) * 6 ELSE Px(PLAYER_SIZE),
     height |-> IF enemy_type = "boss" THEN Px(PLAYER_SIZE) * 7
                ELSE (Px(PLAYER_SIZE) * 3) \div 2,
     vel_x |-> 0, vel_y |-> 0, on_ground |-> FALSE,
     type |-> enemy_type,
     health |-> CASE enemy_type = "zombie" -> 30 [] enemy_type = "slime" -> 20
                  [] enemy_type = "ice_golem" -> 40 [] OTHER -> 200,
     speed |-> CASE enemy_type = "zombie" -> U [] enemy_type = "slime" -> (3 * U) \div 2
                 [] enemy_type = "ice_golem" -> (7 * U) \div 10
                 [] OTHER -> (8 * U) \div 10,
     damage |-> CASE enemy_type = "zombie" -> 10 [] enemy_type = "slime" -> 5
                  [] enemy_type = "ice_golem" -> 15 [] OTHER -> 25,
     direction |-> 1, idle_timer |-> idle_timer, attack_cooldown |-> 0,
     activated |-> FALSE, current_pattern |-> "none", pattern_timer |-> 0]

attack_patterns == {"jump", "projectile", "charge"}

\* Projectile.__init__: lifetime 60 frames, size 10
Projectile(id, x, y, vel_x, vel_y, proj_type) ==
    [id |-> id, x |-> x, y |-> y, vel_x |-> vel_x, vel_y |-> vel_y,
     type |-> proj_type, lifetime |-> 60, size |-> Px(10)]

\* Item.__init__: 15 x 15
Item(id, x, y, item_type) ==
    [id |-> id, x |-> x, y |-> y, type |-> item_type,
     width |-> Px(15), height |-> Px(15)]

\* GoalFlag.__init__
GoalFlag(x, y) ==
    [id |-> 1, x |-> x, y |-> y, width |-> TILE, height |-> TILE * 3]

\* The rectangle test written out four times in the source (player against
\* enemy, item and goal flag): a and b have x, y, width, height.
overlaps(a, b) ==
    /\ a.x < b.x + b.width
    /\ a.x + a.width > b.x
    /\ a.y < b.y + b.height
    /\ a.y + a.height > b.y

\* int(v) of a length in units, in whole pixels: truncation toward zero, as
\* pygame.Rect does with float arguments.
ToInt(v) == IF v >= 0 THEN v \div U ELSE 0 - ((0 - v) \div U)

\* pygame.Rect(x, y, w, h), in whole pixels
Rect(x, y, w, h) == [x |-> ToInt(x), y |-> ToInt(y), w |-> ToInt(w), h |-> ToInt(h)]

\* Rect.colliderect, for rectangles of positive size
colliderect(a, b) ==
    /\ a.x < b.x + b.w
    /\ a.y < b.y + b.h
    /\ a.x + a.w > b.x
    /\ a.y + a.h > b.y

Abs(v) == IF v < 0 THEN 0 - v ELSE v
Max(a, b) == IF a >= b THEN a ELSE b
Min(a, b) == IF a <= b THEN a ELSE b

\* a / b rounded toward zero
DivTrunc(a, b) == IF a >= 0 THEN a \div b ELSE 0 - ((0 - a) \div b)

RECURSIVE IsqrtBetween(_, _, _)
\* The integer square root of n, known to lie in lo..hi.
IsqrtBetween(n, lo, hi) ==
    IF lo >= hi THEN lo
    ELSE LET mid == (lo + hi + 1) \div 2
         IN  IF mid * mid <= n THEN IsqrtBetween(n, mid, hi)
             ELSE IsqrtBetween(n, lo, mid - 1)

Isqrt(n) == IsqrtBetween(n, 0, 46340)

ids_of(list) == [i \in 1..Len(list) |-> list[i].id]

\* The place in a list of the object with the given identity.
index_of(list, id) == CHOOSE i \in 1..Len(list) : list[i].id = id

has_id(list, id) == \E i \in 1..Len(list) : list[i].id = id

without_id(list, id) == SelectSeq(list, LAMBDA o : o.id # id)

-----------------------------------------------------------------------------
(* Randomness.  random.randint, random.choice and random.random are inputs *)
(* of the actions, drawn from these families.                              *)

\* One death's loot: a sequence of <<dx, dy, kind>>, the offsets in pixels
\* from random.randint(-10, 10) and the kind "coin" or "iron".  An ordinary
\* drop has random.randint(1, 3) items.
OrdinaryDraws ==
    {<<<<0, 0, "coin">>>>,
     <<<<0 - 10, 10, "iron">>, <<0, 0, "coin">>>>,
     <<<<10, 0 - 10, "coin">>, <<0, 0, "iron">>, <<0 - 10, 10, "coin">>>>}

\* The boss's loot in Player.attack: 10 items.
BossDraws ==
    {[i \in 1..10 |-> <<i - 5, 5 - i, IF i % 3 = 0 THEN "iron" ELSE "coin">>]}

\* Item(enemy.x + dx, enemy.y + dy, kind) for each entry of a draw
make_items(e, draw, id) ==
    [i \in 1..Len(draw) |->
        Item(id + i - 1, e.x + Px(draw[i][1]), e.y + Px(draw[i][2]), draw[i][3])]

-----------------------------------------------------------------------------
(* Player methods.                                                         *)

\* Player.update, lines 171-185: physics, is_jumping, the world bounds and
\* the attack cooldown.
player_move(p, w) ==
    LET q == update_physics(p, w)
    IN  [q EXCEPT !.is_jumping = ~q.on_ground,
                  !.x = Max(0, Min(q.x, Px(WORLD_WIDTH) - q.width)),
                  !.attack_cooldown = IF @ > 0 THEN @ - 1 ELSE @]

\* The places in the enemy list of the enemies whose box overlaps the player's
contacts(p, es) == {i \in 1..Len(es) : overlaps(p, es[i])}

\* The effect of one contact: damage, invincibility, knockback
contact_hit(p, e) ==
    [p EXCEPT !.health = @ - e.damage,
              !.invincible = 60,
              !.vel_x = IF e.x < p.x THEN Px(5) ELSE Px(0 - 5),
              !.vel_y = Px(0 - 5)]

RECURSIVE contact_hit_all(_, _, _)
contact_hit_all(p, es, i) ==
    IF i > Len(es) THEN p
    ELSE contact_hit_all(IF overlaps(p, es[i]) THEN contact_hit(p, es[i]) ELSE p,
                         es, i + 1)

player_contact_no_break(p, es) ==
    IF p.invincible <= 0
    THEN contact_hit_all(p, es, 1)
    ELSE [p EXCEPT !.invincible = @ - 1]

\* Player.update, lines 194-212: the enemy collision check.  The loop stops
\* (break) at the first enemy of the list that overlaps.
player_contact(p, es) ==
    IF p.invincible <= 0
    THEN IF contacts(p, es) = {} THEN p
         ELSE LET first == CHOOSE i \in contacts(p, es) :
                              \A j \in contacts(p, es) : i <= j
              IN  contact_hit(p, es[first])
    ELSE [p EXCEPT !.invincible = @ - 1]

\* Player.update, lines 214-222: every overlapped item adds one to its kind
player_pickup(p, its) ==
    [p EXCEPT !.inventory =
        [k \in InventoryKinds |->
            @[k] + Cardinality({i \in 1..Len(its) :
                                    overlaps(p, its[i]) /\ its[i].type = k})]]

items_kept(p, its) == its

\* ... and is removed from the item list.
items_left(p, its) == SelectSeq(its, LAMBDA it : ~overlaps(p, it))

\* Player.jump
jump(p) ==
    IF p.on_ground /\ ~p.is_jumping
    THEN [p EXCEPT !.vel_y = Px(JUMP_STRENGTH), !.is_jumping = TRUE]
    ELSE p

\* Player.attack: the hit box, 1000 pixels long on the facing side
attack_rect(p) ==
    Rect(IF p.facing = "left" THEN p.x - Px(1000) ELSE p.x + p.width,
         p.y + Px(10), Px(1000), p.height - Px(20))

enemy_rect(e) == Rect(e.x, e.y, e.width, e.height)

attack_damage_flat(e) == 20

\* Player.attack: reduced damage against the boss
attack_damage(e) == IF e.type = "boss" THEN 5 ELSE 20

attack_kills_ordinary(p, es) ==
    {i \in 1..Len(es) :
        /\ colliderect(attack_rect(p), enemy_rect(es[i]))
        /\ es[i].type # "boss"
        /\ es[i].health - attack_damage(es[i]) <= 0}

\* The places of the enemies an attack hits, and of those it kills.
attack_hits(p, es) ==
    {i \in 1..Len(es) : colliderect(attack_rect(p), enemy_rect(es[i]))}
attack_kills(p, es) ==
    {i \in attack_hits(p, es) : es[i].health - attack_damage(es[i]) <= 0}

\* The number of items playing out draws[j] for each killed enemy j < i adds
items_before(draws, kills, i) ==
    LET before == {j \in kills : j < i}
        RECURSIVE sum(_)
        sum(S) == IF S = {} THEN 0
                  ELSE LET j == CHOOSE k \in S : TRUE
                       IN  Len(draws[j]) + sum(S \ {j})
    IN  sum(before)

RECURSIVE concat_items(_, _, _, _, _)
\* The items of all killed enemies, in list order; ids count up from id.
concat_items(es, draws, kills, id, i) ==
    IF i > Len(es) THEN <<>>
    ELSE (IF i \in kills
          THEN make_items(es[i], draws[i], id + items_before(draws, kills, i))
          ELSE <<>>) \o concat_items(es, draws, kills, id, i + 1)

\* Player.attack's loop over enemies[:]: the enemy list afterwards
attack_enemies(p, es) ==
    LET hit == attack_hits(p, es)
        kills == attack_kills(p, es)
        damaged == [i \in 1..Len(es) |->
                        IF i \in hit
                        THEN [es[i] EXCEPT !.health = @ - attack_damage(es[i])]
                        ELSE es[i]]
    IN  SelectSeq(damaged, LAMBDA e : ~\E i \in kills : es[i].id = e.id)

-----------------------------------------------------------------------------
(* Enemy.update.                                                           *)

\* self.x + self.width // 2, self.y + self.height // 2
centre_x(e) == e.x + Px((e.width \div U) \div 2)
centre_y(e) == e.y + Px((e.height \div U) \div 2)

\* dx / dist * 6 and dy / dist * 6 with dist = max(1, sqrt(dx*dx + dy*dy)):
\* the aimed velocity, rounded toward zero to a whole number of units.  (dx
\* and dy are first scaled down together when large, which keeps the
\* direction, so that the squares stay within 32 bits.)
aimed_velocity(dx, dy) ==
    LET scale == 1 + Max(Abs(dx), Abs(dy)) \div 16384
        sx == DivTrunc(dx, scale)
        sy == DivTrunc(dy, scale)
        dist == Isqrt(sx * sx + sy * sy)
    IN  IF dist * scale < U
        THEN <<6 * dx, 6 * dy>>
        ELSE <<DivTrunc(6 * U * sx, dist), DivTrunc(6 * U * sy, dist)>>

boss_activation_recomputed(e, p) ==
    [e EXCEPT !.activated = Abs(p.x - e.x) < Px(400)]

\* Enemy.update, lines 332-339: the boss wakes when the player comes close
boss_activation(e, p) ==
    IF ~e.activated /\ Abs(p.x - e.x) < Px(400)
    THEN [e EXCEPT !.activated = TRUE]
    ELSE e

boss_attack_two_thirds(e0, p, choice) ==
    LET a == IF e0.attack_cooldown <= 0
             THEN [e0 EXCEPT !.current_pattern = choice,
                             !.pattern_timer = 120,
                             !.attack_cooldown = 60]
             ELSE e0
        b == [a EXCEPT !.pattern_timer = @ - 1]
        c == CASE b.current_pattern = "jump" ->
                    IF b.on_ground /\ b.pattern_timer = 100
                    THEN [b EXCEPT !.vel_y = Px(0 - 20)] ELSE b
               [] b.current_pattern = "charge" ->
                    IF b.pattern_timer > 40
                    THEN [b EXCEPT !.vel_x = IF p.x < b.x THEN Px(0 - 5) ELSE Px(5)]
                    ELSE [b EXCEPT !.vel_x = 0]
               [] OTHER -> b
        v == aimed_velocity(p.x - b.x, p.y - b.y)
        shots == IF b.current_pattern = "projectile" /\ b.pattern_timer % 30 = 0
                 THEN <<Projectile(0, centre_x(b), centre_y(b), v[1], v[2],
                                   "boss_fire")>>
                 ELSE <<>>
    IN  [e |-> [c EXCEPT !.attack_cooldown = @ - 1], shots |-> shots]

\* Enemy.update, lines 342-377: the activated boss; choice is
\* random.choice(self.attack_patterns), used when a pattern is chosen.
\* Returns the enemy and the projectiles it fires (without identity yet).
boss_attack(e0, p, choice) ==
    LET a == IF e0.attack_cooldown <= 0
             THEN [e0 EXCEPT !.current_pattern = choice,
                             !.pattern_timer = 120,
                             !.attack_cooldown = 60]
             ELSE e0
        b == [a EXCEPT !.pattern_timer = @ - 1]
        c == CASE b.current_pattern = "jump" ->
                    IF b.on_ground /\ b.pattern_timer = 100
                    THEN [b EXCEPT !.vel_y = Px(0 - 20)] ELSE b
               [] b.current_pattern = "charge" ->
                    IF b.pattern_timer > 60
                    THEN [b EXCEPT !.vel_x = IF p.x < b.x THEN Px(0 - 5) ELSE Px(5)]
                    ELSE [b EXCEPT !.vel_x = 0]
               [] OTHER -> b
        v == aimed_velocity(p.x - b.x, p.y - b.y)
        shots == IF b.current_pattern = "projectile" /\ b.pattern_timer % 30 = 0
                 THEN <<Projectile(0, centre_x(b), centre_y(b), v[1], v[2],
                                   "boss_fire")>>
                 ELSE <<>>
    IN  [e |-> [c EXCEPT !.attack_cooldown = @ - 1], shots |-> shots]

away(e, p) == IF p.x < e.x THEN 1 ELSE 0 - 1

\* Lines 381-384: the direction of the player
toward(e, p) == IF p.x < e.x THEN 0 - 1 ELSE 1

normal_behaviour_short_cooldown(e0, p, flip) ==
    LET near == Abs(e0.x - p.x) < Px(300)
        a == IF near
             THEN [e0 EXCEPT !.direction = toward(e0, p)]
             ELSE IF flip THEN [e0 EXCEPT !.direction = @ * (0 - 1)] ELSE e0
        fires == near /\ a.type = "ice_golem" /\ a.idle_timer <= 0
                    /\ Abs(a.x - p.x) < Px(200)
        b == IF ~near THEN [a EXCEPT !.vel_x = a.direction * a.speed]
             ELSE CASE a.type = "zombie" ->
                        [a EXCEPT !.vel_x = a.direction * a.speed]
                    [] a.type = "slime" ->
                        [a EXCEPT !.vel_y = IF a.on_ground /\ Abs(a.x - p.x) < Px(100)
                                            THEN Px(0 - 10) ELSE @,
                                  !.vel_x = a.direction * a.speed]
                    [] a.type = "ice_golem" ->
                        [a EXCEPT !.idle_timer = IF fires THEN 60 ELSE @,
                                  !.vel_x = (a.direction * a.speed) \div 2]
                    [] OTHER -> a
        shots == IF fires
                 THEN <<Projectile(0, centre_x(a), centre_y(a),
                                   a.direction * Px(5), 0, "ice")>>
                 ELSE <<>>
    IN  [e |-> IF b.type = "ice_golem" THEN [b EXCEPT !.idle_timer = @ - 1] ELSE b,
         shots |-> shots]

\* Enemy.update, lines 379-410: zombie, slime and ice golem; flip is
\* random.random() < 0.01, used when the enemy wanders.
normal_behaviour(e0, p, flip) ==
    LET near == Abs(e0.x - p.x) < Px(300)
        a == IF near
             THEN [e0 EXCEPT !.direction = toward(e0, p)]
             ELSE IF flip THEN [e0 EXCEPT !.direction = @ * (0 - 1)] ELSE e0
        fires == near /\ a.type = "ice_golem" /\ a.idle_timer <= 0
                    /\ Abs(a.x - p.x) < Px(200)
        b == IF ~near THEN [a EXCEPT !.vel_x = a.direction * a.speed]
             ELSE CASE a.type = "zombie" ->
                        [a EXCEPT !.vel_x = a.direction * a.speed]
                    [] a.type = "slime" ->
                        [a EXCEPT !.vel_y = IF a.on_ground /\ Abs(a.x - p.x) < Px(100)
                                            THEN Px(0 - 10) ELSE @,
                                  !.vel_x = a.direction * a.speed]
                    [] a.type = "ice_golem" ->
                        [a EXCEPT !.idle_timer = IF fires THEN 120 ELSE @,
                                  !.vel_x = (a.direction * a.speed) \div 2]
                    [] OTHER -> a
        shots == IF fires
                 THEN <<Projectile(0, centre_x(a), centre_y(a),
                                   a.direction * Px(5), 0, "ice")>>
                 ELSE <<>>
    IN  [e |-> IF b.type = "ice_golem" THEN [b EXCEPT !.idle_timer = @ - 1] ELSE b,
         shots |-> shots]

\* Enemy.update: behaviour, then physics.
enemy_update(e, p, w, choice, flip) ==
    LET r == IF e.type = "boss"
             THEN LET a == boss_activation(e, p)
                  IN  IF a.activated THEN boss_attack(a, p, choice)
                      ELSE [e |-> a, shots |-> <<>>]
             ELSE normal_behaviour(e, p, flip)
    IN  [e |-> update_physics(r.e, w), shots |-> r.shots]

-----------------------------------------------------------------------------
(* The projectile step of main's loop.                                     *)

projectile_update_ageless(pr) ==
    [pr EXCEPT !.x = @ + pr.vel_x, !.y = @ + pr.vel_y]
\* Projectile.update
projectile_update(pr) ==
    [pr EXCEPT !.x = @ + pr.vel_x, !.y = @ + pr.vel_y, !.lifetime = @ - 1]

proj_rect(pr) ==
    Rect(pr.x - pr.size, pr.y - pr.size, pr.size * 2, pr.size * 2)

player_rect(p) == Rect(p.x, p.y, p.width, p.height)

hits_player_ignoring_invincible(pr, p) ==
    colliderect(proj_rect(pr), player_rect(p))

\* main, line 1333: the projectile hits the player
hits_player(pr, p) ==
    colliderect(proj_rect(pr), player_rect(p)) /\ p.invincible <= 0

\* main, lines 1334-1335
projectile_hit(p, pr) ==
    [p EXCEPT !.health = @ - (IF pr.type # "boss_fire" THEN 10 ELSE 20),
              !.invincible = 30]

\* main, lines 1346-1348: the places of the enemies the projectile overlaps
projectile_targets(pr, es) ==
    {i \in 1..Len(es) : colliderect(proj_rect(pr), enemy_rect(es[i]))}

\* No game is running: the state of the game variables in the harnesses
\* that drive World and Entity directly.
NoGame ==
    /\ player = None
    /\ enemies = <<>>
    /\ items = <<>>
    /\ projectiles = <<>>
    /\ main = None
    /\ pc = "none"
    /\ todo = <<>>

-----------------------------------------------------------------------------
(* The World API driven directly: any caller may add a freshly built      *)
(* Block, hand remove_block any Block object it still holds a reference   *)
(* to, or start a level generation, which empties blocks and grid.        *)

MaxBlockObjects == 3

\* Block positions the calls draw from: left of the world (chunk -1), the
\* last tile of chunk 0, and the first tile of chunk 1 on the bedrock row.
GridPositions ==
    {<<Px(0 - TILE_SIZE), Px(0)>>, <<Px(280), Px(0)>>, <<Px(320), Px(1000)>>}
GridTypes == {"grass", "bedrock"}

\* Probe positions of get_nearby_blocks: the block positions and points far
\* from all of them.
QueryPositions ==
    GridPositions \cup {<<Px(2560), Px(8000)>>, <<Px(7960), Px(0 - 2560)>>}

GridInit ==
    /\ world = EmptyWorld
    /\ block_refs = {}
    /\ raised = "none"
    /\ next_id = 1
    /\ entity = None
    /\ NoGame

\* world.add_block(Block(x, y, block_type))
AddBlockCall(x, y, block_type) ==
    /\ next_id <= MaxBlockObjects
    /\ LET block == Block(next_id, x, y, block_type)
       IN  /\ world' = add_block(world, block)
           /\ block_refs' = block_refs \cup {block}
    /\ next_id' = next_id + 1
    /\ raised' = "none"
    /\ UNCHANGED <<entity, gameVars>>

\* world.remove_block(block)
RemoveBlockCall(block) ==
    /\ IF remove_block_raises(world, block)
       THEN /\ raised' = "ValueError"
            /\ world' = world
       ELSE /\ raised' = "none"
            /\ world' = remove_block(world, block)
    /\ UNCHANGED <<block_refs, next_id, entity, gameVars>>

\* The first statements of generate_level_1 and generate_level_2.
GenerateResetCall ==
    /\ world.blocks # <<>>
    /\ world' = [world EXCEPT !.blocks = <<>>, !.grid = <<>>]
    /\ raised' = "none"
    /\ UNCHANGED <<block_refs, next_id, entity, gameVars>>

GridNext ==
    \/ \E p \in GridPositions, t \in GridTypes : AddBlockCall(p[1], p[2], t)
    \/ \E block \in block_refs : RemoveBlockCall(block)
    \/ GenerateResetCall

SpecGrid == GridInit /\ [][GridNext]_vars

-----------------------------------------------------------------------------
(* C1: every block that was added and not removed is returned exactly once *)
(* by get_nearby_blocks at its own position, and a block that was removed  *)
(* (or dropped by a generation reset) is returned by no get_nearby_blocks  *)
(* call, whatever the probe position; after any sequence of calls.         *)
C1_ChunkMembership ==
    \A b \in block_refs :
        IF InSeq(b, world.blocks)
        THEN Count(b, get_nearby_blocks(world, b.x, b.y)) = 1
        ELSE \A q \in QueryPositions :
                ~InSeq(b, get_nearby_blocks(world, q[1], q[2]))

\* A removed block and a live one built at the same position.
C1_Witness ==
    \E b \in block_refs, c \in block_refs :
        /\ ~InSeq(b, world.blocks)
        /\ InSeq(c, world.blocks)
        /\ b.x = c.x /\ b.y = c.y
        /\ raised = "none"

(* C2: remove_block called with a block that is not in the world raises    *)
(* nothing and leaves the block list and every chunk list unchanged.       *)
C2_RemoveAbsentIsSilent ==
    [][\A b \in block_refs :
          (~InSeq(b, world.blocks) /\ RemoveBlockCall(b))
              => (raised' = "none" /\ world' = world)]_vars

(* C3: blocks and grid hold the same blocks: each block of World.blocks is *)
(* in exactly one chunk list, the one keyed by the floor of its position   *)
(* over TILE_SIZE*CHUNK_SIZE, and every block of a chunk list is in        *)
(* World.blocks.                                                           *)
C3_BlocksMatchGrid ==
    /\ \A i \in 1..Len(world.blocks) :
          LET b == world.blocks[i]
              key == <<b.x \div (Px(TILE_SIZE) * CHUNK_SIZE),
                       b.y \div (Px(TILE_SIZE) * CHUNK_SIZE)>>
          IN  /\ \E g \in 1..Len(world.grid) : world.grid[g].key = key
              /\ \A g \in 1..Len(world.grid) :
                    Count(b, world.grid[g].list)
                        = (IF world.grid[g].key = key THEN 1 ELSE 0)
    /\ \A g \in 1..Len(world.grid) :
          \A j \in 1..Len(world.grid[g].list) :
              InSeq(world.grid[g].list[j], world.blocks)

\* Two live blocks filed under different chunks after a removal.
C3_Witness ==
    /\ Len(world.blocks) = 2
    /\ chunk_key(world.blocks[1]) # chunk_key(world.blocks[2])
    /\ Cardinality(block_refs) = 3

-----------------------------------------------------------------------------
(* Entity.update_physics stepped on its own: an entity with zero velocity  *)
(* starts one tile above a floor of blocks and is stepped repeatedly.      *)

FloorY == Px(480)
FloorColumns == 14

RECURSIVE add_blocks(_, _, _)
\* add_block for each <<x, y, type>> of a list; ids count up from `id`.
add_blocks(w, list, id) ==
    IF list = <<>> THEN w
    ELSE add_blocks(add_block(w, Block(id, Head(list)[1], Head(list)[2], Head(list)[3])),
                    Tail(list), id + 1)

\* A floor row at FloorY, with `depth` - 1 rows of dirt below it.
FloorWorld(depth) ==
    add_blocks(EmptyWorld,
        [i \in 1..(FloorColumns * depth) |->
            <<Px(((i - 1) % FloorColumns) * TILE_SIZE),
              FloorY + ((i - 1) \div FloorColumns) * TILE,
              IF i <= FloorColumns THEN "grass" ELSE "dirt">>],
        1)

\* Player and ordinary enemies are 30 x 45, the boss is 180 x 210.
EntitySizes ==
    {<<Px(PLAYER_SIZE), (Px(PLAYER_SIZE) * 3) \div 2>>,
     <<Px(PLAYER_SIZE) * 6, Px(PLAYER_SIZE) * 7>>}

PhysicsStartXs == {Px(0), Px(25), Px(100), Px(290), Px(305) + 1}

PhysicsInit ==
    /\ \E depth \in 1..2 : world = FloorWorld(depth)
    /\ \E size \in EntitySizes, x \in PhysicsStartXs :
          entity = Entity(x, FloorY - TILE - size[2], size[1], size[2])
    /\ block_refs = {}
    /\ raised = "none"
    /\ next_id = 1
    /\ NoGame

PhysicsStep ==
    /\ entity' = update_physics(entity, world)
    /\ UNCHANGED <<world, block_refs, raised, next_id, gameVars>>

PhysicsNext == PhysicsStep

SpecPhysics == PhysicsInit /\ [][PhysicsNext]_vars /\ WF_vars(PhysicsStep)

AtRest ==
    /\ entity.vel_y = 0
    /\ entity.on_ground
    /\ entity.y + entity.height = FloorY


\* Positions around the chunk borders of the floor, for an entity of the
\* given size: left of the world, across x = CHUNK_SPAN, and from above the
\* floor row down into it.
NearbyProbes(size) ==
    {<<x, y>> : x \in {0 - Px(PLAYER_SIZE), 0 - 1, Px(0), CHUNK_SPAN - size[1],
                       CHUNK_SPAN - 1, CHUNK_SPAN},
                y \in {FloorY - size[2] - 1, FloorY - size[2] + 1, CHUNK_SPAN - 1,
                       FloorY + TILE - 1}}

\* The blocks of w whose bounding box overlaps e's are all in the list
\* get_nearby_blocks gives at e's position.
nearby_covers(e, w) ==
    \A i \in 1..Len(w.blocks) :
        check_collision(e, w.blocks[i])
            => InSeq(w.blocks[i], get_nearby_blocks(w, e.x, e.y))

\* C23: every block whose bounding box overlaps the entity's after the move
\* of update_physics is in the candidate list update_physics gets from
\* get_nearby_blocks at the moved position; the same holds for an entity of
\* either size at every probe position around the chunk borders.
C23_NearbyCoversOverlaps ==
    /\ nearby_covers(after_move(entity), world)
    /\ \A size \in EntitySizes : \A pos \in NearbyProbes(size) :
          nearby_covers(Entity(pos[1], pos[2], size[1], size[2]), world)

\* The move of the next update_physics puts the entity on a block that is
\* stored in another chunk than the entity's own.
C23_Witness ==
    \E i \in 1..Len(world.blocks) :
        /\ check_collision(after_move(entity), world.blocks[i])
        /\ chunk_key(world.blocks[i])
              # <<chunk_of(after_move(entity).x), chunk_of(after_move(entity).y)>>
(* C7: an entity with zero initial velocity one tile above a floor of      *)
(* blocks reaches, after finitely many update_physics steps, a state with  *)
(* vel_y = 0, on_ground and its bottom edge on the floor's top edge, and   *)
(* every later step ends in that state.                                    *)
C7_RestingEquilibrium == <>[]AtRest

\* The entity has fallen the whole tile and rests on the floor.
C7_Witness == AtRest /\ entity.vel_x = 0

-----------------------------------------------------------------------------
(* main.  One turn of the while loop is: the events of pygame.event.get,   *)
(* one action each (pc = "events"); then the frame, in the order of the    *)
(* source: spawn, break, place, player.update, the loop over enemies[:]    *)
(* and the loop over projectiles[:], one action per loop turn.  todo holds *)
(* the identities of the list copy still to be visited.                     *)

\* main's locals at line 1109.  break_progress counts halves (0.5 a frame);
\* world_xy is the pair world_x, world_y, unbound (<<>>) until first assigned.
MainStart ==
    [current_level |-> 1, game_time |-> 0, paused |-> FALSE,
     level_complete |-> FALSE, running |-> TRUE,
     placing_block |-> FALSE, breaking_block |-> FALSE,
     break_progress |-> 0, current_breaking_block |-> None,
     world_xy |-> <<>>]

harnessVars == <<block_refs, entity>>

\* The goal flag test of lines 1151-1156 and 1201-1204
at_goal_flag(w, p) == w.goal_flag # None /\ overlaps(p, w.goal_flag)

\* The cells of generate_level_2 that a run can touch near the start and in
\* the boss arena: the surface row (height_variation taken as 0, the value at
\* the columns where x * 0.005 is whole, so surface_y is 480) in the order of
\* the column loop, then the arena's ceiling row.  The arena platform and
\* walls lie below the surface row.
Level2Cells ==
    [i \in 1..3 |-> <<Px(40 + i * TILE_SIZE), Px(SCREEN_HEIGHT - TILE_SIZE * 3), "grass">>]
    \o [i \in 1..19 |-> <<Px(WORLD_WIDTH - BOSS_ARENA_WIDTH - 5 * TILE_SIZE
                                + i * TILE_SIZE),
                          Px(SCREEN_HEIGHT - TILE_SIZE * 3), "grass">>]
    \o [i \in 1..15 |-> <<Px(WORLD_WIDTH - BOSS_ARENA_WIDTH + (i - 1) * TILE_SIZE),
                          Px(SCREEN_HEIGHT - TILE_SIZE * 6), "stone">>]

generate_level_2_over_level_1(id) ==
    [add_blocks(world, Level2Cells, id) EXCEPT
        !.goal_flag = GoalFlag(Px(WORLD_WIDTH - BOSS_ARENA_WIDTH
                                    + BOSS_ARENA_WIDTH \div 2 - TILE_SIZE),
                               Px(SCREEN_HEIGHT - TILE_SIZE * 6 - TILE_SIZE * 2))]

\* generate_level_2: blocks and grid start empty, the blocks are added in
\* order, the flag stands above the arena.
generate_level_2(id) ==
    [add_blocks(EmptyWorld, Level2Cells, id) EXCEPT
        !.goal_flag = GoalFlag(Px(WORLD_WIDTH - BOSS_ARENA_WIDTH
                                    + BOSS_ARENA_WIDTH \div 2 - TILE_SIZE),
                               Px(SCREEN_HEIGHT - TILE_SIZE * 6 - TILE_SIZE * 2))]

\* generate_level_2's return value: the boss's x
boss_x == Px(WORLD_WIDTH - BOSS_ARENA_WIDTH + BOSS_ARENA_WIDTH \div 2 - PLAYER_SIZE)

\* Lines 1124-1134: SPACE on the level-complete screen starts level 2.
\* intro_ok is show_level_intro's result, idle_timer the boss's random draw.
AdvanceLevel(m, intro_ok, idle_timer) ==
    /\ main' = [m EXCEPT !.current_level = @ + 1, !.level_complete = FALSE]
    /\ player' = Player(Px(100), Px(SCREEN_HEIGHT \div 2))
    /\ projectiles' = <<>>
    /\ items' = <<>>
    /\ world' = generate_level_2(next_id)
    /\ enemies' = <<Enemy(next_id + Len(Level2Cells), boss_x,
                          Px(SCREEN_HEIGHT - TILE_SIZE * 5), "boss", idle_timer)>>
    /\ next_id' = next_id + Len(Level2Cells) + 1
    /\ pc' = IF intro_ok THEN pc ELSE "done"
    /\ UNCHANGED <<todo, raised>>

Attack_without_cooldown(ordinary) ==
    IF TRUE
    THEN LET kills == attack_kills(player, enemies)
         IN  \E draws \in [kills -> ordinary \cup BossDraws] :
                /\ \A i \in kills :
                      draws[i] \in (IF enemies[i].type = "boss"
                                    THEN BossDraws ELSE ordinary)
                /\ LET dropped == concat_items(enemies, draws, kills, next_id, 1)
                   IN  /\ items' = items \o dropped
                       /\ next_id' = next_id + Len(dropped)
                /\ enemies' = attack_enemies(player, enemies)
                /\ player' = [player EXCEPT !.attack_cooldown = 20]
    ELSE UNCHANGED <<player, enemies, items, next_id>>

\* player.attack(enemies), lines 233-269; ordinary is the family the loot of
\* an ordinary enemy is drawn from.
Attack(ordinary) ==
    IF player.attack_cooldown <= 0
    THEN LET kills == attack_kills(player, enemies)
         IN  \E draws \in [kills -> ordinary \cup BossDraws] :
                /\ \A i \in kills :
                      draws[i] \in (IF enemies[i].type = "boss"
                                    THEN BossDraws ELSE ordinary)
                /\ LET dropped == concat_items(enemies, draws, kills, next_id, 1)
                   IN  /\ items' = items \o dropped
                       /\ next_id' = next_id + Len(dropped)
                /\ enemies' = attack_enemies(player, enemies)
                /\ player' = [player EXCEPT !.attack_cooldown = 20]
    ELSE UNCHANGED <<player, enemies, items, next_id>>

SelectKeys == {"1", "2", "3", "4", "5"}

\* Lines 1139-1148
block_of_key(key) ==
    CASE key = "1" -> "grass" [] key = "2" -> "dirt" [] key = "3" -> "stone"
      [] key = "4" -> "wood" [] key = "5" -> "iron"

KeyDown_through_pause(key, intro_ok, idle_timer, ordinary) ==
    /\ pc = "events"
    /\ LET m == IF key = "escape" THEN [main EXCEPT !.paused = ~@] ELSE main
       IN  IF m.level_complete
           THEN IF key = "space" /\ m.level_complete /\ m.current_level < 2
                THEN AdvanceLevel(m, intro_ok, idle_timer)
                ELSE /\ main' = [m EXCEPT !.running = IF key = "q" THEN FALSE ELSE @]
                     /\ UNCHANGED <<world, player, enemies, items, projectiles,
                                    pc, todo, raised, next_id>>
           ELSE /\ UNCHANGED <<world, projectiles, pc, todo, raised>>
                /\ CASE key = "space" ->
                           /\ player' = jump(player)
                           /\ main' = m
                           /\ UNCHANGED <<enemies, items, next_id>>
                     [] key \in SelectKeys ->
                           /\ player' = [player EXCEPT !.selected_block = block_of_key(key)]
                           /\ main' = m
                           /\ UNCHANGED <<enemies, items, next_id>>
                     [] key = "f" ->
                           /\ Attack(ordinary)
                           /\ main' = m
                     [] key = "y" /\ m.current_level = 1 /\ at_goal_flag(world, player) ->
                           /\ main' = [m EXCEPT !.level_complete = TRUE]
                           /\ UNCHANGED <<player, enemies, items, next_id>>
                     [] OTHER ->
                           /\ main' = m
                           /\ UNCHANGED <<player, enemies, items, next_id>>
    /\ UNCHANGED harnessVars

\* A KEYDOWN event, lines 1117-1158.
KeyDown(key, intro_ok, idle_timer, ordinary) ==
    /\ pc = "events"
    /\ LET m == IF key = "escape" THEN [main EXCEPT !.paused = ~@] ELSE main
       IN  IF m.paused \/ m.level_complete
           THEN IF key = "space" /\ m.level_complete /\ m.current_level < 2
                THEN AdvanceLevel(m, intro_ok, idle_timer)
                ELSE /\ main' = [m EXCEPT !.running = IF key = "q" THEN FALSE ELSE @]
                     /\ UNCHANGED <<world, player, enemies, items, projectiles,
                                    pc, todo, raised, next_id>>
           ELSE /\ UNCHANGED <<world, projectiles, pc, todo, raised>>
                /\ CASE key = "space" ->
                           /\ player' = jump(player)
                           /\ main' = m
                           /\ UNCHANGED <<enemies, items, next_id>>
                     [] key \in SelectKeys ->
                           /\ player' = [player EXCEPT !.selected_block = block_of_key(key)]
                           /\ main' = m
                           /\ UNCHANGED <<enemies, items, next_id>>
                     [] key = "f" ->
                           /\ Attack(ordinary)
                           /\ main' = m
                     [] key = "y" /\ m.current_level = 1 /\ at_goal_flag(world, player) ->
                           /\ main' = [m EXCEPT !.level_complete = TRUE]
                           /\ UNCHANGED <<player, enemies, items, next_id>>
                     [] OTHER ->
                           /\ main' = m
                           /\ UNCHANGED <<player, enemies, items, next_id>>
    /\ UNCHANGED harnessVars

\* A MOUSEBUTTONDOWN event, lines 1160-1164: button 1 is left, 3 is right
MouseButtonDown(button) ==
    /\ pc = "events"
    /\ ~main.paused /\ ~main.level_complete
    /\ main' = IF button = 1 THEN [main EXCEPT !.breaking_block = TRUE]
               ELSE IF button = 3 THEN [main EXCEPT !.placing_block = TRUE]
               ELSE main
    /\ UNCHANGED <<world, player, enemies, items, projectiles, pc, todo, raised,
                   next_id, harnessVars>>

\* A MOUSEBUTTONUP event, lines 1166-1172
MouseButtonUp(button) ==
    /\ pc = "events"
    /\ ~main.paused /\ ~main.level_complete
    /\ main' = IF button = 1
               THEN [main EXCEPT !.breaking_block = FALSE, !.break_progress = 0,
                                 !.current_breaking_block = None]
               ELSE IF button = 3 THEN [main EXCEPT !.placing_block = FALSE]
               ELSE main
    /\ UNCHANGED <<world, player, enemies, items, projectiles, pc, todo, raised,
                   next_id, harnessVars>>

\* A QUIT event, line 1114
Quit ==
    /\ pc = "events"
    /\ main' = [main EXCEPT !.running = FALSE]
    /\ UNCHANGED <<world, player, enemies, items, projectiles, pc, todo, raised,
                   next_id, harnessVars>>

\* Lines 1174-1184: paused, or on the level-complete screen: the turn ends
\* without simulating; the while condition is tested next.
IdleFrame ==
    /\ pc = "events"
    /\ main.paused \/ main.level_complete
    /\ pc' = IF main.running THEN "events" ELSE "done"
    /\ UNCHANGED <<world, player, enemies, items, projectiles, main, todo, raised,
                   next_id, harnessVars>>

goal_reached_with_boss(m, w, p, es) ==
    at_goal_flag(w, p) /\ m.current_level = 2

\* Lines 1201-1211: at the flag in level 2 with no boss among the enemies
goal_reached(m, w, p, es) ==
    /\ at_goal_flag(w, p)
    /\ m.current_level = 2
    /\ ~\E i \in 1..Len(es) : es[i].type = "boss"

\* Lines 1187-1212: game time, the movement keys held (left is LEFT or A,
\* right is RIGHT or D) and the goal flag check.  last_frame bounds the run.
BeginFrame(left, right, last_frame) ==
    /\ pc = "events"
    /\ ~main.paused /\ ~main.level_complete
    /\ main.game_time < last_frame
    /\ player' = [player EXCEPT
                    !.vel_x = IF right THEN Px(3) ELSE IF left THEN Px(0 - 3) ELSE 0,
                    !.facing = IF right THEN "right" ELSE IF left THEN "left" ELSE @]
    /\ main' = [main EXCEPT
                    !.game_time = @ + 1,
                    !.level_complete =
                        @ \/ goal_reached(main, world, player, enemies)]
    /\ pc' = "spawn"
    /\ UNCHANGED <<world, enemies, items, projectiles, todo, raised, next_id,
                   harnessVars>>

\* Lines 1215-1218
spawn_allowed(m, p) ==
    \/ m.current_level = 1
    \/ m.current_level = 2
          /\ p.x < Px(WORLD_WIDTH - BOSS_ARENA_WIDTH - SCREEN_WIDTH)

spawn_due_at_cap(m, p, es) ==
    /\ m.game_time % 300 = 0
    /\ Len(es) <= (IF m.current_level = 1 THEN 5 ELSE 8)
    /\ spawn_allowed(m, p)
\* Line 1220
spawn_due(m, p, es) ==
    /\ m.game_time % 300 = 0
    /\ Len(es) < (IF m.current_level = 1 THEN 5 ELSE 8)
    /\ spawn_allowed(m, p)

\* Line 1221
enemy_types(m) ==
    IF m.current_level = 1 THEN {"zombie", "slime"}
    ELSE {"zombie", "slime", "ice_golem"}

\* Lines 1214-1225; the arguments are the random draws.
Spawn(enemy_type, side, distance, idle_timer) ==
    /\ pc = "spawn"
    /\ IF spawn_due(main, player, enemies)
       THEN /\ enemy_type \in enemy_types(main)
            /\ enemies' = Append(enemies,
                             Enemy(next_id, player.x + side * Px(distance),
                                   Px(SCREEN_HEIGHT - TILE_SIZE * 5),
                                   enemy_type, idle_timer))
            /\ next_id' = next_id + 1
       ELSE UNCHANGED <<enemies, next_id>>
    /\ pc' = "break"
    /\ UNCHANGED <<world, player, items, projectiles, main, todo, raised,
                   harnessVars>>

\* Lines 1236-1237: the point is on the block, borders included
block_contains(block, world_x, world_y) ==
    /\ world_x >= block.x /\ world_x <= block.x + TILE
    /\ world_y >= block.y /\ world_y <= block.y + TILE

\* Lines 1234-1239: the first nearby block the point is on, or None
clicked_block(w, world_x, world_y) ==
    LET nearby_blocks == get_nearby_blocks(w, world_x, world_y)
        on == {i \in 1..Len(nearby_blocks) :
                    block_contains(nearby_blocks[i], world_x, world_y)}
    IN  IF on = {} THEN None
        ELSE nearby_blocks[CHOOSE i \in on : \A j \in on : i <= j]

breakable_any(block) == block # None

\* Line 1241
breakable(block) == block # None /\ block.type # "bedrock"

\* Line 1247: break_progress >= clicked_block.health, progress in halves
broken(progress, block) == block.health # Inf /\ progress >= 2 * block.health

\* Lines 1229-1263.  world_x, world_y: the mouse position plus the camera
\* offset, read when the left button is held.
BreakBlock(world_x, world_y) ==
    /\ pc = "break"
    /\ LET block == clicked_block(world, world_x, world_y)
           progress == (IF main.current_breaking_block.id # block.id
                        THEN 0 ELSE main.break_progress) + 1
           m == IF main.breaking_block
                THEN [main EXCEPT !.world_xy = <<world_x, world_y>>] ELSE main
       IN  IF main.breaking_block /\ breakable(block)
           THEN IF broken(progress, block)
                THEN /\ world' = remove_block(world, block)
                     /\ IF block.type \in InventoryKinds
                        THEN /\ player' = [player EXCEPT !.inventory[block.type] = @ + 1]
                             /\ main' = [m EXCEPT !.breaking_block = FALSE,
                                                  !.break_progress = 0,
                                                  !.current_breaking_block = None]
                             /\ pc' = "place"
                             /\ UNCHANGED raised
                        ELSE /\ raised' = "KeyError"
                             /\ main' = [m EXCEPT !.current_breaking_block = block,
                                                  !.break_progress = progress]
                             /\ pc' = "done"
                             /\ UNCHANGED player
                ELSE /\ main' = [m EXCEPT !.current_breaking_block = block,
                                          !.break_progress = progress]
                     /\ pc' = "place"
                     /\ UNCHANGED <<world, player, raised>>
           ELSE /\ main' = m
                /\ pc' = "place"
                /\ UNCHANGED <<world, player, raised>>
    /\ UNCHANGED <<enemies, items, projectiles, todo, next_id, harnessVars>>

can_place_unchecked(m, p) == m.placing_block

can_place_at_zero(m, p) == m.placing_block /\ p.inventory[p.selected_block] >= 0

\* Line 1266
can_place(m, p) == m.placing_block /\ p.inventory[p.selected_block] > 0

\* Lines 1271-1272: (world_x // TILE_SIZE) * TILE_SIZE
snap(v) == (v \div TILE) * TILE

valid_position_ignoring_blocks(w, p, grid_x, grid_y) ==
    ~(/\ grid_x < p.x + p.width
      /\ grid_x + TILE > p.x
      /\ grid_y < p.y + p.height
      /\ grid_y + TILE > p.y)
\* Lines 1274-1287
valid_position(w, p, grid_x, grid_y) ==
    /\ ~(/\ grid_x < p.x + p.width
         /\ grid_x + TILE > p.x
         /\ grid_y < p.y + p.height
         /\ grid_y + TILE > p.y)
    /\ LET nearby_blocks == get_nearby_blocks(w, grid_x, grid_y)
       IN  ~\E i \in 1..Len(nearby_blocks) :
                nearby_blocks[i].x = grid_x /\ nearby_blocks[i].y = grid_y

\* Lines 1265-1294
PlaceBlock(world_x, world_y) ==
    /\ pc = "place"
    /\ LET m == IF can_place(main, player)
                THEN [main EXCEPT !.world_xy = <<world_x, world_y>>] ELSE main
       IN  IF can_place(main, player)
                /\ valid_position(world, player, snap(world_x), snap(world_y))
           THEN /\ world' = add_block(world, Block(next_id, snap(world_x),
                                                   snap(world_y), player.selected_block))
                /\ next_id' = next_id + 1
                /\ player' = [player EXCEPT !.inventory[player.selected_block] = @ - 1]
                /\ main' = [m EXCEPT !.placing_block = FALSE]
           ELSE /\ main' = m
                /\ UNCHANGED <<world, next_id, player>>
    /\ pc' = "player"
    /\ UNCHANGED <<enemies, items, projectiles, todo, raised, harnessVars>>

\* Line 1297: player.update(world.blocks, enemies, items)
UpdatePlayer ==
    /\ pc = "player"
    /\ LET moved == player_move(player, world)
           hit == player_contact(moved, enemies)
       IN  /\ player' = player_pickup(hit, items)
           /\ items' = items_left(hit, items)
    /\ pc' = "enemies"
    /\ todo' = ids_of(enemies)
    /\ UNCHANGED <<world, enemies, projectiles, main, raised, next_id, harnessVars>>

\* Projectiles get their identities when appended to the list.
with_ids(shots, id) == [i \in 1..Len(shots) |-> [shots[i] EXCEPT !.id = id + i - 1]]

\* Lines 1299-1311: one turn of the loop over enemies[:]
UpdateEnemy(choice, flip, draw) ==
    /\ pc = "enemies"
    /\ todo # <<>>
    /\ LET i == index_of(enemies, Head(todo))
           r == enemy_update(enemies[i], player, world, choice, flip)
           dropped == make_items(r.e, draw, next_id + Len(r.shots))
       IN  /\ projectiles' = projectiles \o with_ids(r.shots, next_id)
           /\ IF r.e.health <= 0
              THEN /\ enemies' = without_id(enemies, r.e.id)
                   /\ items' = items \o dropped
                   /\ next_id' = next_id + Len(r.shots) + Len(dropped)
              ELSE /\ enemies' = [enemies EXCEPT ![i] = r.e]
                   /\ next_id' = next_id + Len(r.shots)
                   /\ UNCHANGED items
    /\ todo' = Tail(todo)
    /\ UNCHANGED <<world, player, main, pc, raised, harnessVars>>

\* The loop over enemies[:] is over; the loop over projectiles[:] starts.
EnemiesDone ==
    /\ pc = "enemies"
    /\ todo = <<>>
    /\ pc' = "projectiles"
    /\ todo' = ids_of(projectiles)
    /\ UNCHANGED <<world, player, enemies, items, projectiles, main, raised,
                   next_id, harnessVars>>

\* Lines 1321-1366: one turn of the loop over projectiles[:]
UpdateProjectile(draw) ==
    /\ pc = "projectiles"
    /\ todo # <<>>
    /\ LET k == index_of(projectiles, Head(todo))
           pr == projectile_update(projectiles[k])
           targets == projectile_targets(pr, enemies)
       IN  IF pr.lifetime <= 0
           THEN /\ projectiles' = without_id(projectiles, pr.id)
                /\ UNCHANGED <<player, enemies, items, next_id>>
           ELSE /\ player' = IF hits_player(pr, player)
                             THEN projectile_hit(player, pr) ELSE player
                /\ projectiles' = IF hits_player(pr, player) \/ targets # {}
                                  THEN without_id(projectiles, pr.id)
                                  ELSE [projectiles EXCEPT ![k] = pr]
                /\ IF targets = {}
                   THEN UNCHANGED <<enemies, items, next_id>>
                   ELSE LET i == CHOOSE t \in targets : \A j \in targets : t <= j
                            e == [enemies[i] EXCEPT !.health = @ - 10]
                        IN  IF e.health <= 0
                            THEN /\ enemies' = without_id(enemies, e.id)
                                 /\ items' = items \o make_items(e, draw, next_id)
                                 /\ next_id' = next_id + Len(draw)
                            ELSE /\ enemies' = [enemies EXCEPT ![i] = e]
                                 /\ UNCHANGED <<items, next_id>>
    /\ todo' = Tail(todo)
    /\ UNCHANGED <<world, main, pc, raised, harnessVars>>

\* The loop over projectiles[:] is over and the turn ends; the while
\* condition is tested next.
EndFrame ==
    /\ pc = "projectiles"
    /\ todo = <<>>
    /\ pc' = IF main.running THEN "events" ELSE "done"
    /\ UNCHANGED <<world, player, enemies, items, projectiles, main, todo, raised,
                   next_id, harnessVars>>

-----------------------------------------------------------------------------
(* Digging to bedrock in level 1.  The run starts from a snapshot of the    *)
(* game: the player has dug column x = 80 down from the surface (grass, two *)
(* dirt, nine stone) and stands on its last stone, with bedrock below.      *)

\* The frames a run plays after the snapshot.
BuildFrames == 11

\* The frame of the snapshot: before the first spawn at frame 300.
BuildStartTime == 150

\* What is left of column x = 80, in generation order.
ShaftCells ==
    <<<<Px(2 * TILE_SIZE), Px(SCREEN_HEIGHT + TILE_SIZE * 9), "stone">>,
      <<Px(2 * TILE_SIZE), Px(SCREEN_HEIGHT + TILE_SIZE * 10), "bedrock">>>>

\* The points the mouse is held at: on the stone, on the bedrock, on the
\* border of the two, and in the open shaft above the player.
BuildProbes ==
    {<<Px(100), Px(980)>>, <<Px(100), Px(1020)>>, <<Px(100), Px(1000)>>,
     <<Px(100), Px(860)>>}

BuildKeys == {"1", "5", "escape"}

BuildInit ==
    /\ world = [add_blocks(EmptyWorld, ShaftCells, 1) EXCEPT
                    !.goal_flag = GoalFlag(Px(WORLD_WIDTH - TILE_SIZE * 10),
                                           Px(SCREEN_HEIGHT - TILE_SIZE * 4))]
    /\ next_id = Len(ShaftCells) + 1
    /\ player = [Player(Px(88), Px(SCREEN_HEIGHT + TILE_SIZE * 9) - (Px(PLAYER_SIZE) * 3) \div 2)
                    EXCEPT !.on_ground = TRUE,
                           !.inventory = [StartInventory EXCEPT
                                            !["grass"] = @ + 1, !["dirt"] = @ + 2,
                                            !["stone"] = @ + 9]]
    /\ enemies = <<>>
    /\ items = <<>>
    /\ projectiles = <<>>
    /\ main = [MainStart EXCEPT !.game_time = BuildStartTime]
    /\ pc = "events"
    /\ todo = <<>>
    /\ raised = "none"
    /\ block_refs = {}
    /\ entity = None

BuildNext ==
    \/ \E key \in BuildKeys : KeyDown(key, TRUE, 0, OrdinaryDraws)
    \/ \E button \in {1, 3} : MouseButtonDown(button)
    \/ \E button \in {1, 3} : MouseButtonUp(button)
    \/ IdleFrame
    \/ BeginFrame(FALSE, FALSE, BuildStartTime + BuildFrames)
    \/ \E enemy_type \in {"zombie"} : Spawn(enemy_type, 1, 200, 0)
    \/ \E xy \in BuildProbes : BreakBlock(xy[1], xy[2])
    \/ \E xy \in BuildProbes : PlaceBlock(xy[1], xy[2])
    \/ UpdatePlayer
    \/ EnemiesDone
    \/ EndFrame

SpecBuild == BuildInit /\ [][BuildNext]_vars

\* C4: bedrock is immutable.  A break step whose clicked block is bedrock
\* changes neither the world, nor the player (so not the inventory), nor the
\* break progress; and no step of the run takes a bedrock block out of the
\* world or gives it a health other than infinite.
C4_BedrockImmutable ==
    [][/\ \A xy \in BuildProbes :
            (LET block == clicked_block(world, xy[1], xy[2])
             IN  block # None /\ block.type = "bedrock"
                /\ main.breaking_block
                /\ BreakBlock(xy[1], xy[2]))
            => /\ world' = world
               /\ player' = player
               /\ main' = [main EXCEPT !.world_xy = xy]
       /\ \A i \in 1..Len(world.blocks) :
            world.blocks[i].type = "bedrock"
            => /\ InSeq(world.blocks[i], world'.blocks)
               /\ world.blocks[i].health = Inf]_vars

\* The break step has just run with the left button held on the bedrock.
C4_Witness ==
    /\ pc = "place"
    /\ main.breaking_block
    /\ main.world_xy # <<>>
    /\ LET block == clicked_block(world, main.world_xy[1], main.world_xy[2])
       IN  block # None /\ block.type = "bedrock"

\* C11: a place step taken with the right button held while the count of the
\* selected kind is 0 adds no block to the world, changes no inventory count
\* (nor anything else of the player) and raises no error; the frame goes on
\* to the player's update.
C11_EmptyPlaceRejected ==
    [][\A xy \in BuildProbes :
            (/\ main.placing_block
             /\ player.inventory[player.selected_block] = 0
             /\ PlaceBlock(xy[1], xy[2]))
            => /\ world' = world
               /\ player' = player
               /\ raised' = raised /\ raised = "none"
               /\ pc' = "player"]_vars

\* The place step has just run with the right button held, iron selected and
\* no iron in the inventory: the button is still held, the world is as
\* generated.
C11_Witness ==
    /\ pc = "player"
    /\ main.placing_block
    /\ player.selected_block = "iron"
    /\ player.inventory["iron"] = 0
    /\ Len(world.blocks) = Len(ShaftCells)
    /\ raised = "none"

-----------------------------------------------------------------------------
(* The boss arena of level 2.  A run starts from one of two snapshots: the *)
(* player approaches the dormant boss for the first time, or the fight is  *)
(* nearly over (the boss has 5 health left and is in its projectile        *)
(* pattern).  The boss rests on the surface row, where its first physics   *)
(* update puts it.                                                          *)

\* The frames a run plays after the snapshot.
BossFrames == 4

\* The frame of the snapshot
BossStartTime == 2410

BossScenes == {"dormant", "fighting"}

\* The boss of line 1132 after it has come to rest
resting_boss(id) ==
    [Enemy(id, boss_x, Px(SCREEN_HEIGHT - TILE_SIZE * 3) - Px(PLAYER_SIZE) * 7, "boss", 0)
        EXCEPT !.on_ground = TRUE]

BossInit ==
    /\ world = generate_level_2(1)
    /\ next_id = Len(Level2Cells) + 2
    /\ player = [Player(boss_x - Px(403),
                        Px(SCREEN_HEIGHT - TILE_SIZE * 3) - (Px(PLAYER_SIZE) * 3) \div 2)
                    EXCEPT !.on_ground = TRUE]
    /\ \E scene \in BossScenes :
          enemies = <<IF scene = "dormant"
                      THEN resting_boss(Len(Level2Cells) + 1)
                      ELSE [resting_boss(Len(Level2Cells) + 1) EXCEPT
                                !.activated = TRUE,
                                !.current_pattern = "projectile",
                                !.pattern_timer = 92,
                                !.attack_cooldown = 32,
                                !.health = 5]>>
    /\ items = <<>>
    /\ projectiles = <<>>
    /\ main = [MainStart EXCEPT !.current_level = 2, !.game_time = BossStartTime]
    /\ pc = "events"
    /\ todo = <<>>
    /\ raised = "none"
    /\ block_refs = {}
    /\ entity = None

BossKeys == {"f", "escape"}

BossNext ==
    \/ \E key \in BossKeys : KeyDown(key, TRUE, 0, OrdinaryDraws)
    \/ Quit
    \/ IdleFrame
    \/ \E left, right \in BOOLEAN : BeginFrame(left, right, BossStartTime + BossFrames)
    \/ \E enemy_type \in {"zombie"} : Spawn(enemy_type, 1, 200, 0)
    \/ BreakBlock(0, 0)
    \/ PlaceBlock(0, 0)
    \/ UpdatePlayer
    \/ \E choice \in attack_patterns, draw \in OrdinaryDraws :
            UpdateEnemy(choice, FALSE, draw)
    \/ EnemiesDone
    \/ \E draw \in OrdinaryDraws : UpdateProjectile(draw)
    \/ EndFrame

SpecBoss == BossInit /\ [][BossNext]_vars

\* C5: boss activation is one-way.  In every step, a boss that is activated
\* and still in the enemy list afterwards is still activated; and the update
\* of a boss with the player less than 400 pixels away in x leaves it
\* activated.
C5_ActivationOneWay ==
    [][\A i \in 1..Len(enemies), j \in 1..Len(enemies') :
            (enemies[i].type = "boss" /\ enemies'[j].id = enemies[i].id)
            => /\ enemies[i].activated => enemies'[j].activated
               /\ (pc = "enemies" /\ todo # <<>> /\ todo' = Tail(todo)
                        /\ Head(todo) = enemies[i].id
                        /\ Abs(player.x - enemies[i].x) < Px(400))
                    => enemies'[j].activated]_vars

\* The boss woke during the run and has just been updated with the player
\* back outside the activation distance.
C5_Witness ==
    /\ pc = "enemies" /\ todo = <<>>
    /\ main.game_time > BossStartTime + 1
    /\ \E i \in 1..Len(enemies) :
          /\ enemies[i].type = "boss" /\ enemies[i].activated
          /\ enemies[i].health = 200
          /\ Abs(player.x - enemies[i].x) >= Px(400)

\* C6: loot scaling.  Whenever a step takes the boss out of the enemy list,
\* the step appends exactly 10 items.
C6_BossDropsTen ==
    [][((\E i \in 1..Len(enemies) : enemies[i].type = "boss")
            /\ ~\E j \in 1..Len(enemies') : enemies'[j].type = "boss")
        => (Len(items') = Len(items) + 10)]_vars

-----------------------------------------------------------------------------
(* Enemies on the player in level 2, on a flat stretch of the surface.  The *)
(* run starts from a snapshot: a zombie and a slime stand on the player,   *)
(* who was hit by the zombie (first in the list) a second ago and is still *)
(* invincible for 1 to 3 frames; an ice golem has walked into the player   *)
(* from the right and is about to fire.                                     *)

\* The frames a run plays after the snapshot.
ContactFrames == 4

\* The frame of the snapshot: no spawn is due during the run.
ContactStartTime == 2110

\* The surface row under the scene: surface_y is 480 (height_variation 0).
ContactCells ==
    [i \in 1..7 |-> <<Px(6240 + i * TILE_SIZE), Px(SCREEN_HEIGHT - TILE_SIZE * 3), "grass">>]

\* y of a player or ordinary enemy standing on the surface row
StandingY == Px(SCREEN_HEIGHT - TILE_SIZE * 3) - (Px(PLAYER_SIZE) * 3) \div 2

ContactInit ==
    /\ world = [add_blocks(EmptyWorld, ContactCells, 1) EXCEPT
                    !.goal_flag = generate_level_2(1).goal_flag]
    /\ next_id = Len(ContactCells) + 4
    /\ \E invincible \in 1..3 :
          player = [Player(Px(6405), StandingY) EXCEPT
                        !.on_ground = TRUE, !.health = 90,
                        !.invincible = invincible]
    /\ enemies =
          <<[Enemy(Len(ContactCells) + 1, Px(6406), StandingY, "zombie", 0)
                EXCEPT !.on_ground = TRUE],
            [Enemy(Len(ContactCells) + 2, Px(6404), StandingY, "slime", 0)
                EXCEPT !.on_ground = TRUE],
            [Enemy(Len(ContactCells) + 3, Px(6430), StandingY, "ice_golem", 1)
                EXCEPT !.on_ground = TRUE, !.direction = 0 - 1]>>
    /\ items = <<>>
    /\ projectiles = <<>>
    /\ main = [MainStart EXCEPT !.current_level = 2, !.game_time = ContactStartTime]
    /\ pc = "events"
    /\ todo = <<>>
    /\ raised = "none"
    /\ block_refs = {}
    /\ entity = None

ContactKeys == {"space", "f"}

ContactNext ==
    \/ \E key \in ContactKeys : KeyDown(key, TRUE, 0, OrdinaryDraws)
    \/ \E left, right \in BOOLEAN :
            BeginFrame(left, right, ContactStartTime + ContactFrames)
    \/ \E enemy_type \in {"zombie"} : Spawn(enemy_type, 1, 200, 0)
    \/ BreakBlock(0, 0)
    \/ PlaceBlock(0, 0)
    \/ UpdatePlayer
    \/ \E choice \in {"jump"}, draw \in OrdinaryDraws : UpdateEnemy(choice, FALSE, draw)
    \/ EnemiesDone
    \/ \E draw \in OrdinaryDraws : UpdateProjectile(draw)
    \/ EndFrame

SpecContact == ContactInit /\ [][ContactNext]_vars

\* C8: exactly one contact is processed per frame.  In the step that runs
\* player.update, with `moved` the player after physics: if the player is not
\* invincible and overlaps at least one enemy, health drops by the damage of
\* the first overlapping enemy of the list, the countdown becomes 60 and the
\* knockback (5 away from that enemy, 5 up) is the velocity; with no
\* overlap nothing of these changes; while invincible only the countdown
\* changes, by one.
C8_OneContactPerFrame ==
    [][UpdatePlayer =>
        LET moved == player_move(player, world)
            k == contacts(moved, enemies)
        IN  IF player.invincible <= 0 /\ k # {}
            THEN LET first == CHOOSE i \in k : \A j \in k : i <= j
                 IN  /\ player'.health = player.health - enemies[first].damage
                     /\ player'.invincible = 60
                     /\ player'.vel_x = IF enemies[first].x < moved.x
                                        THEN Px(5) ELSE Px(0 - 5)
                     /\ player'.vel_y = Px(0 - 5)
            ELSE /\ player'.health = player.health
                 /\ player'.invincible = IF player.invincible <= 0
                                         THEN player.invincible
                                         ELSE player.invincible - 1
                 /\ player'.vel_x = moved.vel_x
                 /\ player'.vel_y = moved.vel_y]_vars

\* player.update has just run and processed a contact while two or more
\* enemies overlapped the player.
C8_Witness ==
    /\ pc = "enemies" /\ todo = ids_of(enemies)
    /\ player.invincible = 60
    /\ Cardinality(contacts(player, enemies)) >= 2

\* C9: while the invincibility countdown is above 0 the player's health does
\* not decrease.  Every step that lowers the health starts with the
\* countdown at 0 or less and leaves it at 30 or more; and the countdown only
\* goes down in the player.update step of a frame, by one: so two
\* reductions are at least 30 frames apart.
C9_InvincibleNoDamage ==
    [][/\ player'.health < player.health
            => (player.invincible <= 0 /\ player'.invincible >= 30)
       /\ player'.invincible < player.invincible
            => (UpdatePlayer /\ player'.invincible = player.invincible - 1)]_vars

\* player.update has run during the run while the player was invincible and
\* overlapped by an enemy, and a fired projectile has been through the
\* projectile loop: the health is still that of the snapshot.
C9_Witness ==
    /\ pc = "projectiles" /\ todo = <<>>
    /\ main.game_time > ContactStartTime
    /\ player.invincible > 0
    /\ contacts(player, enemies) # {}
    /\ \E i \in 1..Len(enemies) : enemies[i].type = "ice_golem" /\ enemies[i].health < 40
    /\ player.health = 90

-----------------------------------------------------------------------------
(* The end of level 1.  The run starts from a snapshot: the player stands  *)
(* at the goal flag, a zombie already hit once (10 health left) walks      *)
(* towards the player.  The player can kill it, pick up its loot, break    *)
(* and place blocks, press Y at the flag and start level 2.                 *)

\* The frames a run plays after the snapshot.
LevelFrames == 3

\* The frame of the snapshot
LevelStartTime == 2510

\* The surface row at the flag: surface_y is 480 where x * 0.01 is whole.
LevelCells ==
    [i \in 1..4 |-> <<Px(7520 + i * TILE_SIZE), Px(SCREEN_HEIGHT - TILE_SIZE * 3), "grass">>]

\* The points the mouse is held at, by level: on a surface block beside the
\* player, and in the open air.
LevelProbes(current_level) ==
    IF current_level = 1
    THEN {<<Px(7700), Px(500)>>, <<Px(7570), Px(420)>>}
    ELSE {<<Px(180), Px(500)>>, <<Px(180), Px(420)>>}

LevelInit ==
    /\ world = [add_blocks(EmptyWorld, LevelCells, 1) EXCEPT
                    !.goal_flag = GoalFlag(Px(WORLD_WIDTH - TILE_SIZE * 10),
                                           Px(SCREEN_HEIGHT - TILE_SIZE * 4))]
    /\ next_id = Len(LevelCells) + 2
    /\ player = [Player(Px(7605), StandingY) EXCEPT !.on_ground = TRUE]
    /\ enemies = <<[Enemy(Len(LevelCells) + 1, Px(7640), StandingY, "zombie", 0)
                        EXCEPT !.on_ground = TRUE, !.health = 10,
                               !.direction = 0 - 1]>>
    /\ items = <<>>
    /\ projectiles = <<>>
    /\ main = [MainStart EXCEPT !.game_time = LevelStartTime]
    /\ pc = "events"
    /\ todo = <<>>
    /\ raised = "none"
    /\ block_refs = {}
    /\ entity = None

LevelKeys == {"5", "f", "y", "space"}

\* The zombie's loot: an iron and a coin.
LevelDraws == {<<<<0 - 10, 10, "iron">>, <<0, 0, "coin">>>>}

LevelNext ==
    \/ \E key \in LevelKeys, intro_ok \in BOOLEAN :
            KeyDown(key, intro_ok, 0, LevelDraws)
    \/ \E button \in {1, 3} : MouseButtonDown(button)
    \/ IdleFrame
    \/ BeginFrame(FALSE, FALSE, LevelStartTime + LevelFrames)
    \/ \E enemy_type \in {"zombie"} : Spawn(enemy_type, 1, 200, 0)
    \/ \E xy \in LevelProbes(main.current_level) : BreakBlock(xy[1], xy[2])
    \/ \E xy \in LevelProbes(main.current_level) : PlaceBlock(xy[1], xy[2])
    \/ UpdatePlayer
    \/ \E choice \in {"jump"}, draw \in LevelDraws : UpdateEnemy(choice, FALSE, draw)
    \/ EnemiesDone
    \/ EndFrame

SpecLevel == LevelInit /\ [][LevelNext]_vars

\* C10: every count of the player's inventory is at least 0 in every
\* reachable state.
C10_InventoryNonNegative ==
    \A kind \in InventoryKinds : player.inventory[kind] >= 0

\* The player has picked up iron from the zombie's loot and has placed the
\* last of it: an iron block stands in the world and the count is 0.
C10_Witness ==
    /\ player.inventory["iron"] = 0
    /\ player.selected_block = "iron"
    /\ \E i \in 1..Len(world.blocks) : world.blocks[i].type = "iron"

-----------------------------------------------------------------------------
(* A water pool of level 1.  The run starts from a snapshot of the game:   *)
(* the player has walked from the start to column x = 200, the leftmost    *)
(* column a pool can start at, and stands on its grass block.  The column  *)
(* has the least dirt depth (3), and the pool's first water block was      *)
(* added at the place of the column's first dirt block.                    *)

\* The frames a run plays after the snapshot.
PoolFrames == 9

\* The frame of the snapshot: before the first spawn at frame 300.
PoolStartTime == 150

\* The top of column x = 200 in generation order (height_variation is 0
\* where x * 0.01 is whole), then the water block of the pool loop.
PoolCells ==
    <<<<Px(5 * TILE_SIZE), Px(SCREEN_HEIGHT - TILE_SIZE * 3), "grass">>,
      <<Px(5 * TILE_SIZE), Px(SCREEN_HEIGHT - TILE_SIZE * 2), "dirt">>,
      <<Px(5 * TILE_SIZE), Px(SCREEN_HEIGHT - TILE_SIZE), "dirt">>,
      <<Px(5 * TILE_SIZE), Px(SCREEN_HEIGHT), "stone">>,
      <<Px(5 * TILE_SIZE), Px(SCREEN_HEIGHT - TILE_SIZE * 2), "water">>>>

\* The points the mouse is held at: on the grass block, and below it where
\* the dirt block and the water block both are.
PoolProbes == {<<Px(220), Px(500)>>, <<Px(220), Px(540)>>}

PoolInit ==
    /\ world = [add_blocks(EmptyWorld, PoolCells, 1) EXCEPT
                    !.goal_flag = GoalFlag(Px(WORLD_WIDTH - TILE_SIZE * 10),
                                           Px(SCREEN_HEIGHT - TILE_SIZE * 4))]
    /\ next_id = Len(PoolCells) + 1
    /\ player = [Player(Px(205), StandingY) EXCEPT !.on_ground = TRUE]
    /\ enemies = <<>>
    /\ items = <<>>
    /\ projectiles = <<>>
    /\ main = [MainStart EXCEPT !.game_time = PoolStartTime]
    /\ pc = "events"
    /\ todo = <<>>
    /\ raised = "none"
    /\ block_refs = {}
    /\ entity = None

PoolNext ==
    \/ \E key \in {"escape"} : KeyDown(key, TRUE, 0, OrdinaryDraws)
    \/ MouseButtonDown(1)
    \/ MouseButtonUp(1)
    \/ IdleFrame
    \/ BeginFrame(FALSE, FALSE, PoolStartTime + PoolFrames)
    \/ \E enemy_type \in {"zombie"} : Spawn(enemy_type, 1, 200, 0)
    \/ \E xy \in PoolProbes : BreakBlock(xy[1], xy[2])
    \/ \E xy \in PoolProbes : PlaceBlock(xy[1], xy[2])
    \/ UpdatePlayer
    \/ EnemiesDone
    \/ EndFrame

SpecPool == PoolInit /\ [][PoolNext]_vars

\* C12: a break step that brings break_progress to the health of the clicked
\* block, whatever its type among those generation puts in the world, raises
\* no error and lets the frame go on, takes the block out of the world and
\* adds one to the player's count of the block's type.
C12_BreakNeverFatal ==
    [][\A xy \in PoolProbes :
            LET block == clicked_block(world, xy[1], xy[2])
                progress == (IF main.current_breaking_block.id # block.id
                             THEN 0 ELSE main.break_progress) + 1
            IN  (/\ main.breaking_block
                 /\ breakable(block)
                 /\ broken(progress, block)
                 /\ BreakBlock(xy[1], xy[2]))
                => /\ raised' = "none"
                   /\ pc' = "place"
                   /\ ~InSeq(block, world'.blocks)
                   /\ player'.inventory[block.type]
                        = player.inventory[block.type] + 1]_vars
-----------------------------------------------------------------------------
(* At the goal flag of level 2.  The run starts from a snapshot of the     *)
(* game: the player has climbed onto the arena's ceiling row and stands on *)
(* it inside the flag's rectangle, which begins two tiles above the        *)
(* ceiling.  Either the boss still fights below (5 health left), or it has *)
(* been killed and its loot collected.                                      *)

\* The frames a run plays after the snapshot.
GoalFrames == 3

\* The frame of the snapshot
GoalStartTime == 2710

GoalScenes == {"boss", "no boss"}

GoalInit ==
    /\ world = generate_level_2(1)
    /\ next_id = Len(Level2Cells) + 2
    /\ player = [Player(Px(WORLD_WIDTH - BOSS_ARENA_WIDTH + BOSS_ARENA_WIDTH \div 2
                            - TILE_SIZE + 5),
                        Px(SCREEN_HEIGHT - TILE_SIZE * 6) - (Px(PLAYER_SIZE) * 3) \div 2)
                    EXCEPT !.on_ground = TRUE]
    /\ \E scene \in GoalScenes :
          enemies = IF scene = "boss"
                    THEN <<[resting_boss(Len(Level2Cells) + 1) EXCEPT
                                !.activated = TRUE,
                                !.current_pattern = "projectile",
                                !.pattern_timer = 92,
                                !.attack_cooldown = 32,
                                !.health = 5]>>
                    ELSE <<>>
    /\ items = <<>>
    /\ projectiles = <<>>
    /\ main = [MainStart EXCEPT !.current_level = 2, !.game_time = GoalStartTime]
    /\ pc = "events"
    /\ todo = <<>>
    /\ raised = "none"
    /\ block_refs = {}
    /\ entity = None

GoalKeys == {"f", "y", "space"}

GoalNext ==
    \/ \E key \in GoalKeys : KeyDown(key, TRUE, 0, OrdinaryDraws)
    \/ IdleFrame
    \/ \E left \in BOOLEAN : BeginFrame(left, FALSE, GoalStartTime + GoalFrames)
    \/ \E enemy_type \in {"zombie"} : Spawn(enemy_type, 1, 200, 0)
    \/ BreakBlock(0, 0)
    \/ PlaceBlock(0, 0)
    \/ UpdatePlayer
    \/ \E choice \in attack_patterns, draw \in OrdinaryDraws :
            UpdateEnemy(choice, FALSE, draw)
    \/ EnemiesDone
    \/ \E draw \in OrdinaryDraws : UpdateProjectile(draw)
    \/ EndFrame

SpecGoal == GoalInit /\ [][GoalNext]_vars

\* C13: in level 2, a step that makes level_complete true is the goal check
\* of a frame in which the player overlaps the goal flag and no enemy of
\* type boss is in the enemy collection; and in no state of level 2 is
\* level_complete true while a boss is in the collection.
C13_CompleteOnlyWithoutBoss ==
    [][/\ (/\ main.current_level = 2 /\ main'.current_level = 2
           /\ ~main.level_complete /\ main'.level_complete)
          => /\ pc = "events" /\ pc' = "spawn"
             /\ main'.game_time = main.game_time + 1
             /\ at_goal_flag(world, player)
             /\ \A i \in 1..Len(enemies) : enemies[i].type # "boss"
       /\ (main'.current_level = 2
           /\ \E i \in 1..Len(enemies') : enemies'[i].type = "boss")
          => ~main'.level_complete]_vars

\* The player, at the flag while the boss lived, has killed it with a melee
\* attack (its ten items lie in the world) and the next goal check has
\* completed the level.
C13_Witness ==
    /\ main.current_level = 2
    /\ main.level_complete
    /\ main.game_time > GoalStartTime + 1
    /\ Len(items) = 10
    /\ at_goal_flag(world, player)
-----------------------------------------------------------------------------
(* Level generation.  main() builds a World and generates level 1; the     *)
(* level advance generates level 2 in the same World.  One step is one     *)
(* turn of a generation loop; the arguments are the values of the noise    *)
(* field and the random draws of the turn.  The column loops are played    *)
(* on a window of the 200 columns.                                          *)

\* Columns of generate_level_1's window (the source has 200).
GenColumns == 3

\* Turns of the water pool loop (the source has 5).
GenPools == 1

\* Turns of the floating platform loop in each column of level 2 (the
\* source has 20).
GenPlatforms == 1

\* len(range(start, stop, step)) for a positive step
range_len(start, stop, step) ==
    IF start >= stop THEN 0 ELSE (stop - start + step - 1) \div step

\* The bedrock row, SCREEN_HEIGHT + TILE_SIZE * 10
floor_y == Px(SCREEN_HEIGHT + TILE_SIZE * 10)

\* Lines 746-748 and 819-821
dirt_layer(x, surface_y, dirt_depth) ==
    [k \in 1..range_len(surface_y + TILE, surface_y + TILE * dirt_depth, TILE) |->
        <<x, surface_y + k * TILE, "dirt">>]

stone_layer_through_floor(x, surface_y, dirt_depth, ores) ==
    [k \in 1..range_len(surface_y + TILE * dirt_depth, floor_y + TILE, TILE) |->
        <<x, surface_y + TILE * dirt_depth + (k - 1) * TILE,
          IF k \in ores THEN "iron" ELSE "stone">>]

\* Lines 750-752 and 823-828; ores are the turns whose draw is below 0.1
\* (none in level 1)
stone_layer(x, surface_y, dirt_depth, ores) ==
    [k \in 1..range_len(surface_y + TILE * dirt_depth, floor_y, TILE) |->
        <<x, surface_y + TILE * dirt_depth + (k - 1) * TILE,
          IF k \in ores THEN "iron" ELSE "stone">>]

\* Lines 759-768 and 836-845: the trunk, then eight leaf blocks, all in the
\* row above the trunk
tree(x, surface_y, tree_height) ==
    [k \in 1..tree_height |->
        <<x, surface_y - TILE * tree_height + (k - 1) * TILE, "wood">>]
    \o [k \in 1..8 |->
        <<x + (IF k <= 3 THEN 0 - TILE ELSE IF k <= 5 THEN 0 ELSE TILE),
          surface_y - TILE * tree_height - TILE, "grass">>]

level_1_column_any_tree(x, height_variation, dirt_depth, tree_draw, tree_height) ==
    LET surface_y == Px(SCREEN_HEIGHT - TILE_SIZE * 3 + height_variation)
    IN  <<<<x, surface_y, "grass">>>>
        \o dirt_layer(x, surface_y, dirt_depth)
        \o stone_layer(x, surface_y, dirt_depth, {})
        \o <<<<x, floor_y, "bedrock">>>>
        \o (IF tree_draw THEN tree(x, surface_y, tree_height) ELSE <<>>)
\* One turn of generate_level_1's column loop, lines 738-768.  tree_draw is
\* random.random() < 0.03.
level_1_column(x, height_variation, dirt_depth, tree_draw, tree_height) ==
    LET surface_y == Px(SCREEN_HEIGHT - TILE_SIZE * 3 + height_variation)
    IN  <<<<x, surface_y, "grass">>>>
        \o dirt_layer(x, surface_y, dirt_depth)
        \o stone_layer(x, surface_y, dirt_depth, {})
        \o <<<<x, floor_y, "bedrock">>>>
        \o (IF tree_draw /\ surface_y < Px(SCREEN_HEIGHT - TILE_SIZE * 5)
            THEN tree(x, surface_y, tree_height) ELSE <<>>)

\* One turn of the pool loop, lines 771-777
water_pool(w, pool_x, pool_width) ==
    LET grass == {i \in 1..Len(w.blocks) :
                    w.blocks[i].x = pool_x /\ w.blocks[i].type = "grass"}
    IN  IF grass = {} THEN <<>>
        ELSE LET surface_block == w.blocks[CHOOSE i \in grass : \A j \in grass : i <= j]
             IN  [k \in 1..pool_width |->
                    <<pool_x + (k - 1) * TILE, surface_block.y + TILE, "water">>]

\* Lines 848-851; heights are the draws of random.randint(2, 5)
lava_pool(x, surface_y, heights) ==
    [k \in 1..Len(heights) |->
        <<x + (k - 1) * TILE, surface_y + heights[k] * TILE, "lava">>]

\* Lines 854-864: one floating platform
platform(platform_x, platform_y, platform_width) ==
    [k \in 1..platform_width |-> <<platform_x + (k - 1) * TILE, platform_y, "stone">>]

\* Lines 856-858: the platform loop is skipped when the range is empty
max_tiles == WORLD_WIDTH \div TILE_SIZE - BOSS_ARENA_WIDTH \div TILE_SIZE - 10

RECURSIVE platforms(_)
platforms(draws) ==
    IF draws = <<>> \/ max_tiles <= 5 THEN <<>>
    ELSE platform(Head(draws)[1], Head(draws)[2], Head(draws)[3])
         \o platforms(Tail(draws))

\* One turn of generate_level_2's column loop, lines 797-864.  biome is the
\* branch the biome noise selects, tree_draw is random.random() < 0.05,
\* lava_draw is random.random() < 0.02.
level_2_column(x, height_variation, cave, biome, dirt_depth, ores, tree_draw, tree_height, lava_draw, heights, draws) ==
    LET surface_y == Px(SCREEN_HEIGHT - TILE_SIZE * 3 + height_variation)
    IN  (IF cave THEN <<>>
         ELSE <<<<x, surface_y,
                  IF biome = "snow" THEN "stone"
                  ELSE IF biome = "desert" THEN "dirt" ELSE "grass">>>>
              \o dirt_layer(x, surface_y, dirt_depth)
              \o stone_layer(x, surface_y, dirt_depth, ores)
              \o <<<<x, floor_y, "bedrock">>>>)
        \o (IF biome = "grass" /\ tree_draw
               /\ surface_y < Px(SCREEN_HEIGHT - TILE_SIZE * 5) /\ ~cave
            THEN tree(x, surface_y, tree_height) ELSE <<>>)
        \o (IF surface_y > Px(SCREEN_HEIGHT) /\ lava_draw /\ ~cave
            THEN lava_pool(x, surface_y, heights) ELSE <<>>)
        \o platforms(draws)

\* Lines 867-868 and 880
arena_start_x == Px(WORLD_WIDTH - BOSS_ARENA_WIDTH)
arena_floor_y == Px(SCREEN_HEIGHT - TILE_SIZE * 2)
ceiling_y == arena_floor_y - TILE * 4

\* The columns of the arena, range(arena_start_x, arena_start_x +
\* BOSS_ARENA_WIDTH, TILE_SIZE)
arena_columns == range_len(0, Px(BOSS_ARENA_WIDTH), TILE)

\* The rows of the containment walls, range(arena_floor_y, SCREEN_HEIGHT +
\* TILE_SIZE * 5, TILE_SIZE)
wall_rows == range_len(arena_floor_y, Px(SCREEN_HEIGHT + TILE_SIZE * 5), TILE)

\* Lines 866-883: the platform, the two walls row by row, the ceiling
arena ==
    [k \in 1..arena_columns |-> <<arena_start_x + (k - 1) * TILE, arena_floor_y, "stone">>]
    \o [k \in 1..(2 * wall_rows) |->
        <<IF k % 2 = 1 THEN arena_start_x
          ELSE arena_start_x + Px(BOSS_ARENA_WIDTH) - TILE,
          arena_floor_y + ((k - 1) \div 2) * TILE, "stone">>]
    \o [k \in 1..arena_columns |-> <<arena_start_x + (k - 1) * TILE, ceiling_y, "stone">>]

\* The window of level 1: the columns from x = 200, the first a pool can
\* start at.
Level1Xs == [i \in 1..GenColumns |-> Px((4 + i) * TILE_SIZE)]

\* The window of level 2: the two edge columns of the arena.
Level2Xs == <<arena_start_x, arena_start_x + Px(BOSS_ARENA_WIDTH) - TILE>>

\* int(noise.pnoise1(x * 0.01) * TILE_SIZE): 0 where x * 0.01 is whole (the
\* noise vanishes on the lattice), otherwise within (-40, 40).
HeightVariations1(x) == IF x % Px(100) = 0 THEN {0} ELSE {0 - 39, 39}

\* int(noise.pnoise1(x * 0.005) * TILE_SIZE * 3): 0 where x * 0.005 is
\* whole, otherwise within (-120, 120).
HeightVariations2(x) == IF x % Px(200) = 0 THEN {0} ELSE {0 - 100, 13}

\* noise.pnoise2(x * 0.05, 0) > 0.2: x is a multiple of TILE_SIZE, so
\* x * 0.05 is whole and the noise vanishes.
Caves(x) == IF x % Px(20) = 0 THEN {FALSE} ELSE BOOLEAN

Biomes == {"snow", "desert", "grass"}

\* random.randint(3, 5) and random.randint(2, 4)
DirtDepths(level) == IF level = 1 THEN {3, 5} ELSE {2, 4}

\* The turns of the stone loop that draw iron
OreDraws == {{}, {1}}

\* platform_x, platform_y, platform_width of one platform
PlatformDraws ==
    {<<Px(5 * TILE_SIZE), Px(SCREEN_HEIGHT \div 2), 3>>,
     <<Px(max_tiles * TILE_SIZE), Px(SCREEN_HEIGHT - TILE_SIZE * 3), 7>>}

\* pool_x and pool_width: in the window, and far from it
PoolDraws ==
    {<<Px(5 * TILE_SIZE), 3>>, <<Px(7 * TILE_SIZE), 7>>,
     <<Px((WORLD_WIDTH \div TILE_SIZE - 10) * TILE_SIZE), 3>>}

GenInit ==
    /\ world = EmptyWorld
    /\ next_id = 1
    /\ pc = "World"
    /\ todo = <<>>
    /\ raised = "none"
    /\ block_refs = {}
    /\ entity = None
    /\ player = None
    /\ enemies = <<>>
    /\ items = <<>>
    /\ projectiles = <<>>
    /\ main = None

genUnchanged == <<raised, block_refs, entity, player, enemies, items, projectiles, main>>

\* Lines 733-735 and 791-794: generation starts by emptying the world.
\* Level 1 is generated in the new World, level 2 at the level advance.
GenerateStart(level) ==
    /\ pc = (IF level = 1 THEN "World" ELSE "level_1")
    /\ world' = [world EXCEPT !.blocks = <<>>, !.grid = <<>>]
    /\ pc' = IF level = 1 THEN "columns_1" ELSE "columns_2"
    /\ todo' = IF level = 1 THEN Level1Xs ELSE Level2Xs
    /\ UNCHANGED <<next_id, genUnchanged>>

add_cells(cells) ==
    /\ world' = add_blocks(world, cells, next_id)
    /\ next_id' = next_id + Len(cells)

GenerateColumn1(height_variation, dirt_depth, tree_draw, tree_height) ==
    /\ pc = "columns_1"
    /\ todo # <<>>
    /\ height_variation \in HeightVariations1(Head(todo))
    /\ add_cells(level_1_column(Head(todo), height_variation, dirt_depth,
                                tree_draw, tree_height))
    /\ todo' = Tail(todo)
    /\ pc' = IF Tail(todo) = <<>> THEN "pools" ELSE pc
    /\ UNCHANGED genUnchanged

\* One turn of the pool loop; todo counts the turns left.
GeneratePool(pool_x, pool_width) ==
    /\ pc = "pools"
    /\ Len(todo) < GenPools
    /\ add_cells(water_pool(world, pool_x, pool_width))
    /\ todo' = Append(todo, pool_x)
    /\ UNCHANGED <<pc, genUnchanged>>

\* Line 780: self.goal_flag of level 1
level_1_goal_flag ==
    GoalFlag(Px(WORLD_WIDTH - TILE_SIZE * 10), Px(SCREEN_HEIGHT - TILE_SIZE * 4))

level_2_goal_flag_on_platform ==
    GoalFlag(arena_start_x + Px(BOSS_ARENA_WIDTH \div 2) - TILE,
             arena_floor_y - TILE * 2)

\* Line 886: self.goal_flag of level 2
level_2_goal_flag ==
    GoalFlag(arena_start_x + Px(BOSS_ARENA_WIDTH \div 2) - TILE,
             ceiling_y - TILE * 2)

\* Line 780: the flag of level 1
FinishLevel1 ==
    /\ pc = "pools"
    /\ Len(todo) = GenPools
    /\ world' = [world EXCEPT !.goal_flag = level_1_goal_flag]
    /\ pc' = "level_1"
    /\ todo' = <<>>
    /\ UNCHANGED <<next_id, genUnchanged>>

GenerateColumn2(height_variation, cave, biome, dirt_depth, ores, tree_draw, lava_draw, draws) ==
    /\ pc = "columns_2"
    /\ todo # <<>>
    /\ height_variation \in HeightVariations2(Head(todo))
    /\ cave \in Caves(Head(todo))
    /\ add_cells(level_2_column(Head(todo), height_variation, cave, biome,
                                dirt_depth, ores, tree_draw, 4, lava_draw,
                                <<2, 5>>, draws))
    /\ todo' = Tail(todo)
    /\ pc' = IF Tail(todo) = <<>> THEN "arena" ELSE pc
    /\ UNCHANGED genUnchanged

\* Lines 866-886: the arena and the flag above it
GenerateArena ==
    /\ pc = "arena"
    /\ world' = [add_blocks(world, arena, next_id) EXCEPT
                    !.goal_flag = level_2_goal_flag]
    /\ next_id' = next_id + Len(arena)
    /\ pc' = "level_2"
    /\ UNCHANGED <<todo, genUnchanged>>

Gen1Next ==
    \/ GenerateStart(1)
    \/ \E height_variation \in {0 - 39, 0, 39}, dirt_depth \in DirtDepths(1),
          tree_draw \in BOOLEAN :
            GenerateColumn1(height_variation, dirt_depth, tree_draw, 4)
    \/ \E draw \in PoolDraws : GeneratePool(draw[1], draw[2])
    \/ FinishLevel1

SpecGen1 == GenInit /\ [][Gen1Next]_vars

\* C20: after level-1 generation every generated column has exactly one
\* bedrock block, it is at the floor row y = SCREEN_HEIGHT + 10 * TILE_SIZE,
\* and no block of the world lies below that row.
C20_OneBedrockFloor ==
    pc = "level_1"
    => /\ \A k \in 1..Len(Level1Xs) :
            LET bedrock == {i \in 1..Len(world.blocks) :
                                /\ world.blocks[i].x = Level1Xs[k]
                                /\ world.blocks[i].type = "bedrock"}
            IN  /\ Cardinality(bedrock) = 1
                /\ \A i \in bedrock :
                        world.blocks[i].y = Px(SCREEN_HEIGHT + 10 * TILE_SIZE)
       /\ \A i \in 1..Len(world.blocks) :
            world.blocks[i].y <= Px(SCREEN_HEIGHT + 10 * TILE_SIZE)

\* Level 1 is generated: a column of the window lies 39 lower than the
\* base height, so its stone rows are off the tile grid, and a pool has put
\* water in the window.
C20_Witness ==
    /\ pc = "level_1"
    /\ \E i, j \in 1..Len(world.blocks) :
          /\ world.blocks[i].type = "grass"
          /\ world.blocks[i].y = Px(SCREEN_HEIGHT - TILE_SIZE * 3 + 39)
          /\ world.blocks[j].type = "water"
          /\ world.blocks[j].x = world.blocks[i].x


\* The blocks of the ground stack of column x: every block of the column
\* that is neither water nor wood.
ground_stack(w, x) ==
    {i \in 1..Len(w.blocks) :
        /\ w.blocks[i].x = x
        /\ w.blocks[i].type \notin {"water", "wood"}}

\* C21: after level-1 generation, trees and pools included, every generated
\* column has exactly one surface block: one block of the column's ground
\* stack lies above all the others, its type is grass, dirt or stone, and it
\* is the only grass block of the column.
C21_OneSurfaceBlock ==
    pc = "level_1"
    => \A k \in 1..Len(Level1Xs) :
          LET stack == ground_stack(world, Level1Xs[k])
              top == {i \in stack :
                         \A j \in stack : world.blocks[i].y <= world.blocks[j].y}
              grass == {i \in stack : world.blocks[i].type = "grass"}
          IN  /\ Cardinality(top) = 1
              /\ \A i \in top : world.blocks[i].type \in {"grass", "dirt", "stone"}
              /\ grass = top

\* Level 1 is generated and a pool has put water into the cell of the first
\* dirt block of a column whose surface is off the base height.
C21_Witness ==
    /\ pc = "level_1"
    /\ \E i, j \in 1..Len(world.blocks) :
          /\ world.blocks[i].type = "water"
          /\ world.blocks[j].type = "dirt"
          /\ world.blocks[i].x = world.blocks[j].x
          /\ world.blocks[i].y = world.blocks[j].y
          /\ world.blocks[i].y # Px(SCREEN_HEIGHT - TILE_SIZE * 2)
\* The level advance finds the world of level 1 (here its first window
\* column) and generates level 2 in it.
Gen2Init ==
    /\ world = [add_blocks(EmptyWorld,
                           level_1_column(Level1Xs[1], 0, 3, FALSE, 4), 1)
                    EXCEPT !.goal_flag = GoalFlag(Px(WORLD_WIDTH - TILE_SIZE * 10),
                                                  Px(SCREEN_HEIGHT - TILE_SIZE * 4))]
    /\ next_id = Len(level_1_column(Level1Xs[1], 0, 3, FALSE, 4)) + 1
    /\ pc = "level_1"
    /\ todo = <<>>
    /\ raised = "none"
    /\ block_refs = {}
    /\ entity = None
    /\ player = None
    /\ enemies = <<>>
    /\ items = <<>>
    /\ projectiles = <<>>
    /\ main = None

Gen2Next ==
    \/ GenerateStart(2)
    \/ \E height_variation \in {0 - 100, 0, 13}, cave \in BOOLEAN, biome \in Biomes,
          dirt_depth \in DirtDepths(2), ores \in OreDraws,
          tree_draw \in BOOLEAN, draws \in [1..GenPlatforms -> PlatformDraws] :
            GenerateColumn2(height_variation, cave, biome, dirt_depth, ores,
                            tree_draw, tree_draw, draws)
    \/ GenerateArena

SpecGen2 == Gen2Init /\ [][Gen2Next]_vars


\* Both generations one after the other, as the program runs them: level 1
\* in the new World, level 2 at the level advance.
GenNext ==
    \/ \E level \in 1..2 : GenerateStart(level)
    \/ \E height_variation \in {0, 39} :
            GenerateColumn1(height_variation, 3, FALSE, 4)
    \/ GeneratePool(Px(5 * TILE_SIZE), 3)
    \/ FinishLevel1
    \/ \E height_variation \in {0 - 100, 0, 13}, cave \in BOOLEAN, biome \in Biomes,
          dirt_depth \in DirtDepths(2), ores \in OreDraws,
          tree_draw \in BOOLEAN, draws \in [1..GenPlatforms -> PlatformDraws] :
            GenerateColumn2(height_variation, cave, biome, dirt_depth, ores,
                            tree_draw, tree_draw, draws)
    \/ GenerateArena

SpecGen == GenInit /\ [][GenNext]_vars

\* C22: after a level is generated the world has a goal flag; in level 1
\* its x is at least WORLD_WIDTH - 10 * TILE_SIZE (and inside the world), in
\* level 2 it is horizontally inside the boss arena and its y is less than
\* the y of the arena's ceiling row.
C22_GoalFlagPlaced ==
    /\ pc = "level_1"
       => /\ world.goal_flag # None
          /\ world.goal_flag.x >= Px(WORLD_WIDTH - 10 * TILE_SIZE)
          /\ world.goal_flag.x < Px(WORLD_WIDTH)
    /\ pc = "level_2"
       => /\ world.goal_flag # None
          /\ world.goal_flag.x >= arena_start_x
          /\ world.goal_flag.x + world.goal_flag.width
                <= arena_start_x + Px(BOSS_ARENA_WIDTH)
          /\ world.goal_flag.y < ceiling_y

\* Level 2 is generated after level 1: the flag has left its level-1 place
\* and stands over a stone block of the ceiling row.
C22_Witness ==
    /\ pc = "level_2"
    /\ world.goal_flag # level_1_goal_flag
    /\ \E i \in 1..Len(world.blocks) :
          /\ world.blocks[i].type = "stone"
          /\ world.blocks[i].y = ceiling_y
          /\ world.blocks[i].x <= world.goal_flag.x
          /\ world.goal_flag.x < world.blocks[i].x + TILE
\* Whether a block stands at (x, y)
block_at(w, x, y) ==
    \E i \in 1..Len(w.blocks) : w.blocks[i].x = x /\ w.blocks[i].y = y

\* C14: after level-2 generation every arena column has a block at the
\* platform row and a block at the ceiling row, and both edge columns of
\* the arena have a block at every tile row from the ceiling row down to
\* the world floor.
C14_ArenaEnclosed ==
    pc = "level_2"
    => /\ \A k \in 1..(BOSS_ARENA_WIDTH \div TILE_SIZE) :
            /\ block_at(world, arena_start_x + (k - 1) * TILE, arena_floor_y)
            /\ block_at(world, arena_start_x + (k - 1) * TILE, ceiling_y)
       /\ \A x \in {arena_start_x, arena_start_x + Px(BOSS_ARENA_WIDTH) - TILE} :
            \A k \in 0..((floor_y - ceiling_y) \div TILE) :
                block_at(world, x, ceiling_y + k * TILE)
-----------------------------------------------------------------------------
(* Pausing at the end of level 1.  The run starts from the snapshot at the *)
(* goal flag of level 1; ESC, Y and SPACE are pressed in any order.        *)

\* The frames a run plays after the snapshot.
PauseFrames == 2

PauseKeys == {"escape", "y", "space", "f"}

PauseNext ==
    \/ \E key \in PauseKeys : KeyDown(key, TRUE, 0, LevelDraws)
    \/ \E button \in {1, 3} : MouseButtonDown(button)
    \/ \E button \in {1, 3} : MouseButtonUp(button)
    \/ IdleFrame
    \/ BeginFrame(FALSE, FALSE, LevelStartTime + PauseFrames)
    \/ \E enemy_type \in {"zombie"} : Spawn(enemy_type, 1, 200, 0)
    \/ \E xy \in LevelProbes(main.current_level) : BreakBlock(xy[1], xy[2])
    \/ \E xy \in LevelProbes(main.current_level) : PlaceBlock(xy[1], xy[2])
    \/ UpdatePlayer
    \/ \E choice \in {"jump"}, draw \in LevelDraws : UpdateEnemy(choice, FALSE, draw)
    \/ EnemiesDone
    \/ EndFrame

SpecPause == LevelInit /\ [][PauseNext]_vars

\* C15: a step taken while paused is true, and that leaves it true (an
\* input event of a paused frame, or the paused frame's turn itself),
\* changes neither the player, nor the enemy, projectile and item
\* collections, nor the world's blocks, nor the current level, nor
\* game_time.
C15_PauseFreezes ==
    [][(main.paused /\ main'.paused)
        => /\ player' = player
           /\ enemies' = enemies
           /\ projectiles' = projectiles
           /\ items' = items
           /\ world'.blocks = world.blocks
           /\ main'.current_level = main.current_level
           /\ main'.game_time = main.game_time]_vars
-----------------------------------------------------------------------------
(* The first spawn of level 1.  The run starts from a snapshot of the game *)
(* two frames before the spawn rule first fires (frame 300): the player    *)
(* has not left the start column and has no enemy yet.  The player may     *)
(* place a block where the enemy will appear.                               *)

\* The frames a run plays after the snapshot.
SpawnFrames == 3

\* The frame of the snapshot
SpawnStartTime == 298

\* The surface row around the start (height_variation taken as 0)
SpawnCells ==
    [i \in 1..14 |-> <<Px((i - 1) * TILE_SIZE), Px(SCREEN_HEIGHT - TILE_SIZE * 3), "grass">>]

\* The point the mouse is held at: in the air right of the player, in the
\* tile where an enemy spawned 250 to the right appears.
SpawnProbes == {<<Px(330), Px(420)>>}

\* random.randint(200, 400)
SpawnDistances == {200, 250, 400}

SpawnInit ==
    /\ world = [add_blocks(EmptyWorld, SpawnCells, 1) EXCEPT
                    !.goal_flag = GoalFlag(Px(WORLD_WIDTH - TILE_SIZE * 10),
                                           Px(SCREEN_HEIGHT - TILE_SIZE * 4))]
    /\ next_id = Len(SpawnCells) + 1
    /\ player = [Player(Px(100), StandingY) EXCEPT !.on_ground = TRUE]
    /\ enemies = <<>>
    /\ items = <<>>
    /\ projectiles = <<>>
    /\ main = [MainStart EXCEPT !.game_time = SpawnStartTime]
    /\ pc = "events"
    /\ todo = <<>>
    /\ raised = "none"
    /\ block_refs = {}
    /\ entity = None

SpawnNext ==
    \/ \E key \in {"1"} : KeyDown(key, TRUE, 0, LevelDraws)
    \/ \E button \in {1, 3} : MouseButtonDown(button)
    \/ BeginFrame(FALSE, FALSE, SpawnStartTime + SpawnFrames)
    \/ \E enemy_type \in enemy_types(main), side \in {0 - 1, 1},
          distance \in SpawnDistances :
            Spawn(enemy_type, side, distance, 0)
    \/ \E xy \in SpawnProbes : BreakBlock(xy[1], xy[2])
    \/ \E xy \in SpawnProbes : PlaceBlock(xy[1], xy[2])
    \/ UpdatePlayer
    \/ \E flip \in BOOLEAN, draw \in LevelDraws : UpdateEnemy("jump", flip, draw)
    \/ EnemiesDone
    \/ EndFrame

SpecSpawn == SpawnInit /\ [][SpawnNext]_vars

\* C16: the phases of a frame run in the order input intent, enemy AI,
\* physics, combat, spawn bookkeeping.  So the enemy that the spawn rule
\* adds in a frame (game_time a multiple of 300) has had no AI decision and
\* no physics step when the enemy and projectile loops of that frame have
\* run: it is as constructed, at rest at y = SCREEN_HEIGHT - TILE_SIZE * 5.
\* (The run has no enemy before its spawn frame.)
C16_PhaseOrder ==
    (main.game_time % 300 = 0 /\ pc = "projectiles")
    => \A i \in 1..Len(enemies) :
            /\ enemies[i].y = Px(SCREEN_HEIGHT - TILE_SIZE * 5)
            /\ enemies[i].vel_x = 0
            /\ enemies[i].vel_y = 0

\* C17: after the update of the player, and after the update of each enemy
\* in the enemy loop, the updated entity's x is in
\* [0, WORLD_WIDTH - width].
C17_EntitiesInsideWorld ==
    [][/\ UpdatePlayer
          => player'.x >= 0 /\ player'.x <= Px(WORLD_WIDTH) - player'.width
       /\ (pc = "enemies" /\ todo # <<>> /\ todo' = Tail(todo))
          => \A i \in 1..Len(enemies') :
                enemies'[i].id = Head(todo)
                => /\ enemies'[i].x >= 0
                   /\ enemies'[i].x <= Px(WORLD_WIDTH) - enemies'[i].width]_vars

\* The zombies that the step now taken updates in the enemy loop while
\* closer than 300 to the player: pairs of the zombie before and after.
chased_zombies ==
    {pair \in {<<enemies[i], enemies'[j]>> :
                    i \in 1..Len(enemies), j \in 1..Len(enemies')} :
        /\ pc = "enemies" /\ todo # <<>> /\ todo' = Tail(todo)
        /\ pair[1].id = Head(todo) /\ pair[2].id = Head(todo)
        /\ pair[1].type = "zombie"
        /\ (pair[1].x - player.x < Px(300) /\ player.x - pair[1].x < Px(300))}

\* The velocities of magnitude 1 (the zombie's speed) that point from the
\* zombie to the player
chase_velocities(e) ==
    {v \in {0 - U, U} : (player.x < e.x => v < 0) /\ (player.x > e.x => v > 0)}

\* C19 as stated: after one Enemy.update tick, a zombie closer than 300 to
\* the player has a horizontal velocity of magnitude 1 toward the player.
C19_ZombieChases ==
    [][\A pair \in chased_zombies : pair[2].vel_x \in chase_velocities(pair[1])]_vars

\* C19, amended: after one Enemy.update tick, a zombie closer than 300 to
\* the player has a horizontal velocity of magnitude 1 toward the player,
\* or, when the tick's physics step resolved a horizontal collision,
\* velocity 0 with its side against a block; if the zombie, displaced by
\* the chase velocity and by gravity, overlaps no block, its velocity is
\* the chase velocity and it has moved by it.
C19_ZombieChasesUnlessBlocked ==
    [][\A pair \in chased_zombies :
        LET e == pair[1]
            after == pair[2]
            blocked == \E i \in 1..Len(world.blocks) :
                            \/ after.x = world.blocks[i].x - e.width
                            \/ after.x = world.blocks[i].x + TILE
            free == \A v \in chase_velocities(e), i \in 1..Len(world.blocks) :
                        ~check_collision([e EXCEPT !.x = @ + v,
                                                   !.y = @ + e.vel_y + GRAVITY],
                                         world.blocks[i])
        IN  /\ \/ after.vel_x \in chase_velocities(e)
               \/ after.vel_x = 0 /\ blocked
            /\ free => /\ after.vel_x \in chase_velocities(e)
                       /\ after.x = e.x + after.vel_x]_vars

\* The zombie spawned 250 to the right of the player has had its first
\* tick in the open air and moves left at its speed.
C19_Witness ==
    /\ pc = "projectiles"
    /\ \E i \in 1..Len(enemies) :
          /\ enemies[i].type = "zombie"
          /\ enemies[i].x = player.x + Px(250) - U
          /\ enemies[i].vel_x = 0 - U
          /\ ~block_at(world, Px(320), Px(400))
-----------------------------------------------------------------------------
(* Melee in the boss arena.  The run starts from a snapshot of the game:   *)
(* the player stands 403 pixels left of the dormant boss, a zombie that    *)
(* followed the player stands ahead and a slime behind, all on the surface *)
(* row.                                                                     *)

\* The frames a run plays after the snapshot.
MeleeFrames == 2

\* The frame of the snapshot
MeleeStartTime == 2440

\* Health of the boss and of the zombie in the snapshot
MeleeHealths == {<<200, 30>>, <<5, 20>>}

MeleeInit ==
    /\ world = generate_level_2(1)
    /\ next_id = Len(Level2Cells) + 4
    /\ player = [Player(boss_x - Px(403), StandingY) EXCEPT !.on_ground = TRUE]
    /\ \E health \in MeleeHealths :
          enemies =
            <<[Enemy(Len(Level2Cells) + 2, boss_x - Px(340), StandingY, "zombie", 0)
                    EXCEPT !.on_ground = TRUE, !.health = health[2]],
              [resting_boss(Len(Level2Cells) + 1) EXCEPT !.health = health[1]],
              [Enemy(Len(Level2Cells) + 3, boss_x - Px(425), StandingY, "slime", 0)
                    EXCEPT !.on_ground = TRUE]>>
    /\ items = <<>>
    /\ projectiles = <<>>
    /\ main = [MainStart EXCEPT !.current_level = 2, !.game_time = MeleeStartTime]
    /\ pc = "events"
    /\ todo = <<>>
    /\ raised = "none"
    /\ block_refs = {}
    /\ entity = None

MeleeNext ==
    \/ \E key \in {"f"} : KeyDown(key, TRUE, 0, LevelDraws)
    \/ \E left \in BOOLEAN : BeginFrame(left, FALSE, MeleeStartTime + MeleeFrames)
    \/ \E enemy_type \in {"zombie"} : Spawn(enemy_type, 1, 200, 0)
    \/ BreakBlock(0, 0)
    \/ PlaceBlock(0, 0)
    \/ UpdatePlayer
    \/ \E choice \in {"jump"}, draw \in LevelDraws : UpdateEnemy(choice, FALSE, draw)
    \/ EnemiesDone
    \/ EndFrame

SpecMelee == MeleeInit /\ [][MeleeNext]_vars

\* C18: in a step that carries out a melee attack (the cooldown was over and
\* is 20 afterwards), every enemy whose rectangle the attack rectangle
\* overlaps loses 5 health if it is the boss and 20 otherwise, and is
\* removed exactly if that leaves it no health; every other enemy is left
\* as it was.
C18_DamageAsymmetry ==
    [][(pc = "events" /\ player.attack_cooldown <= 0 /\ player'.attack_cooldown = 20)
        => \A i \in 1..Len(enemies) :
            LET e == enemies[i]
                left == e.health - (IF e.type = "boss" THEN 5 ELSE 20)
                after == {j \in 1..Len(enemies') : enemies'[j].id = e.id}
            IN  IF colliderect(attack_rect(player), enemy_rect(e))
                THEN IF left <= 0 THEN after = {}
                     ELSE \E j \in after : enemies'[j] = [e EXCEPT !.health = left]
                ELSE \E j \in after : enemies'[j] = e]_vars

\* One attack has hit the boss and the zombie ahead and missed the slime
\* behind: the boss has lost 5, the zombie 20, the slime nothing.
C18_Witness ==
    /\ player.attack_cooldown > 0
    /\ \E i, j, k \in 1..Len(enemies) :
          /\ enemies[i].type = "boss" /\ enemies[i].health = 195
          /\ enemies[j].type = "zombie" /\ enemies[j].health = 10
          /\ enemies[k].type = "slime" /\ enemies[k].health = 20

\* The enemies of the list that are not in the list after the step.
dying == {i \in 1..Len(enemies) : ~has_id(enemies', enemies[i].id)}

(* C24: dead is terminal.  After every step, so at the end of every frame, *)
(* no enemy of the collection has health <= 0 and no enemy is in it twice; *)
(* an enemy that has left the collection never comes back (every enemy of  *)
(* the collection was in it before the step or is a new object); and a     *)
(* step that removes enemies appends one batch of loot for each: 10 items  *)
(* for a boss killed by an attack, 1 to 3 items otherwise.                 *)
C24_DeadIsTerminal ==
    [][/\ \A j \in 1..Len(enemies') :
            /\ enemies'[j].health > 0
            /\ has_id(enemies, enemies'[j].id) \/ enemies'[j].id >= next_id
            /\ \A k \in 1..Len(enemies') : enemies'[k].id = enemies'[j].id => k = j
       /\ next_id' >= next_id
       /\ dying # {}
          => /\ \A i \in dying : enemies[i].health > 0
             /\ Len(items') - Len(items) >= Cardinality(dying)
             /\ Len(items') - Len(items) <= 3 * Cardinality(dying)
                \/ /\ pc = "events"
                   /\ \E i \in dying : enemies[i].type = "boss"
                   /\ Len(items') - Len(items) >= 10 + Cardinality(dying) - 1
                   /\ Len(items') - Len(items) <= 10 + 3 * (Cardinality(dying) - 1)]_vars

\* The boss has been killed by a projectile and has left its 1 to 3 items.
C24_Witness ==
    /\ pc = "projectiles"
    /\ enemies = <<>>
    /\ Len(items) \in 1..3

(* C25: a step that advances the level leaves exactly one enemy, a boss    *)
(* that is a new object, not activated and at its full health of 200; no   *)
(* projectile and no item; a freshly constructed player at (100,           *)
(* SCREEN_HEIGHT / 2) with health 100; and a world whose block list and    *)
(* grid hold new blocks only, none of the blocks of level 1.               *)
C25_AdvanceRebuilds ==
    [][main'.current_level = main.current_level + 1
        => /\ Len(enemies') = 1
           /\ enemies'[1].type = "boss"
           /\ ~enemies'[1].activated
           /\ enemies'[1].health = 200
           /\ enemies'[1].id >= next_id
           /\ projectiles' = <<>>
           /\ items' = <<>>
           /\ player' = Player(Px(100), Px(SCREEN_HEIGHT \div 2))
           /\ player'.health = 100
           /\ world'.blocks # <<>>
           /\ \A i \in 1..Len(world'.blocks) :
                /\ world'.blocks[i].id >= next_id
                /\ ~InSeq(world'.blocks[i], world.blocks)
           /\ \A g \in 1..Len(world'.grid) : \A i \in 1..Len(world'.grid[g].list) :
                InSeq(world'.grid[g].list[i], world'.blocks)]_vars

\* Level 2 has just been entered, after a fight in level 1 that had left
\* loot on the ground: the boss is where it was constructed, and the blocks
\* and the boss are later objects than the items of level 1 were.
C25_Witness ==
    /\ main.current_level = 2
    /\ Len(enemies) = 1
    /\ enemies[1].y = Px(SCREEN_HEIGHT - TILE_SIZE * 5)
    /\ ~enemies[1].on_ground
    /\ player.health = 100
    /\ world.blocks[1].id > Len(LevelCells) + 2

\* The items the player overlaps where Player.update has put it.
picked == {i \in 1..Len(items) : overlaps(player', items[i])}

(* C26: in a step that runs Player.update, every item the player overlaps  *)
(* adds exactly one to the inventory count of its kind (and no other count *)
(* changes) and is removed from the item list, and the items the player    *)
(* does not overlap stay in the list, unchanged and in their order; in     *)
(* every step every item of the list was in it before or is a new object,  *)
(* so a picked-up item is never picked up again.                           *)
C26_PickupOnce ==
    [][/\ (pc = "player" /\ pc' = "enemies")
          => /\ \A kind \in InventoryKinds :
                    player'.inventory[kind]
                        = player.inventory[kind]
                            + Cardinality({i \in picked : items[i].type = kind})
             /\ \A i \in picked : ~has_id(items', items[i].id)
             /\ items' = SelectSeq(items, LAMBDA it : ~overlaps(player', it))
       /\ \A j \in 1..Len(items') :
            has_id(items, items'[j].id) \/ items'[j].id >= next_id]_vars

\* Player.update has just picked up the iron of a zombie's loot and has
\* left the coin, which the player does not overlap, on the ground.
C26_Witness ==
    /\ pc = "enemies"
    /\ player.inventory["iron"] = 1
    /\ player.inventory["coin"] = 0
    /\ \E i \in 1..Len(items) : items[i].type = "coin" /\ ~overlaps(player, items[i])
    /\ \A i \in 1..Len(items) : items[i].type # "iron"

-----------------------------------------------------------------------------
(* The boss in the middle of a pattern: level 2, the boss activated and    *)
(* charging since 57 frames, the player on either side of it.  The boss    *)
(* reaches into the ceiling row, whose blocks stop its horizontal moves.   *)

ChargeFrames == 5

\* The frame of the snapshot
ChargeStartTime == 2457

\* Where the player stands, from the boss's x
ChargeSides == {0 - Px(403), Px(250)}

ChargeInit ==
    /\ world = generate_level_2(1)
    /\ next_id = Len(Level2Cells) + 2
    /\ \E side \in ChargeSides :
          /\ player = [Player(boss_x + side, StandingY) EXCEPT !.on_ground = TRUE]
          /\ enemies = <<[resting_boss(Len(Level2Cells) + 1) EXCEPT
                            !.activated = TRUE,
                            !.current_pattern = "charge",
                            !.pattern_timer = 63,
                            !.attack_cooldown = 3]>>
    /\ items = <<>>
    /\ projectiles = <<>>
    /\ main = [MainStart EXCEPT !.current_level = 2, !.game_time = ChargeStartTime]
    /\ pc = "events"
    /\ todo = <<>>
    /\ raised = "none"
    /\ block_refs = {}
    /\ entity = None

ChargeNext ==
    \/ \E left, right \in BOOLEAN :
            BeginFrame(left, right, ChargeStartTime + ChargeFrames)
    \/ \E enemy_type \in {"zombie"} : Spawn(enemy_type, 1, 200, 0)
    \/ BreakBlock(0, 0)
    \/ PlaceBlock(0, 0)
    \/ UpdatePlayer
    \/ \E choice \in attack_patterns, draw \in OrdinaryDraws :
            UpdateEnemy(choice, FALSE, draw)
    \/ EnemiesDone
    \/ EndFrame

SpecCharge == ChargeInit /\ [][ChargeNext]_vars

(* C27: the boss selects a pattern (its pattern_timer is set anew, so it   *)
(* is greater after the update than before) only when the window of the    *)
(* current pattern has no frame left, that is when pattern_timer has       *)
(* counted down to 0.                                                      *)
C27_PatternRunsFullWindow ==
    [][\A i \in 1..Len(enemies) : \A j \in 1..Len(enemies') :
            (/\ enemies[i].type = "boss"
             /\ enemies'[j].id = enemies[i].id
             /\ enemies[i].current_pattern \in attack_patterns
             /\ enemies'[j].pattern_timer > enemies[i].pattern_timer)
            => enemies[i].pattern_timer <= 0]_vars

\* The boss whose Enemy.update the enemy loop runs next, after the
\* activation test; None when the next update is not an activated boss's.
charging_next ==
    IF pc = "enemies" /\ todo # <<>> /\ has_id(enemies, Head(todo))
    THEN LET e == enemies[index_of(enemies, Head(todo))]
         IN  IF e.type = "boss" /\ boss_activation(e, player).activated
             THEN boss_activation(e, player) ELSE None
    ELSE None

(* C28 as stated: in every frame of the first two-thirds of the pattern    *)
(* window (pattern_timer, after its decrement, from 119 down to 40) of a   *)
(* Charge pattern the boss's AI sets vel_x to 5 toward the player, and in  *)
(* every frame of the last third it sets vel_x to 0.                       *)
C28_ChargeTwoThirds ==
    charging_next # None
    => \A choice \in attack_patterns :
          LET b == boss_attack(charging_next, player, choice).e
          IN  b.current_pattern = "charge"
              => b.vel_x = IF b.pattern_timer >= 40
                           THEN (IF player.x < charging_next.x THEN Px(0 - 5) ELSE Px(5))
                           ELSE 0

(* C28, amended: in every frame of a Charge pattern in which pattern_timer, *)
(* after its decrement, is greater than 60 the boss's AI sets vel_x to 5   *)
(* toward the player (-5 if the player's x is less than the boss's, 5      *)
(* otherwise), and in every frame in which it is 60 or less the AI sets    *)
(* vel_x to 0.                                                             *)
C28_ChargeWhileTimerAbove60 ==
    charging_next # None
    => \A choice \in attack_patterns :
          LET b == boss_attack(charging_next, player, choice).e
          IN  b.current_pattern = "charge"
              => b.vel_x = IF b.pattern_timer > 60
                           THEN (IF player.x < charging_next.x THEN Px(0 - 5) ELSE Px(5))
                           ELSE 0

\* The boss is about to run the frame of its Charge pattern in which
\* pattern_timer reaches 60: the AI sets vel_x to 0.
C28_Witness ==
    /\ charging_next # None
    /\ charging_next.current_pattern = "charge"
    /\ charging_next.pattern_timer = 61
    /\ charging_next.attack_cooldown = 1
    /\ boss_attack(charging_next, player, "jump").e.vel_x = 0

(* C29: a boss that is not activated keeps its health and stays in the     *)
(* enemy collection in every step, so a boss is removed for health <= 0    *)
(* only after its activated flag has become true.                          *)
C29_DormantBossUntouched ==
    [][\A i \in 1..Len(enemies) :
            (enemies[i].type = "boss" /\ ~enemies[i].activated)
            => \E j \in 1..Len(enemies') :
                    /\ enemies'[j].id = enemies[i].id
                    /\ enemies'[j].health >= enemies[i].health]_vars

(* C30: a turn of the projectile loop for a boss's projectile (the only    *)
(* boss of the level has fired it) leaves that boss in the enemy           *)
(* collection with the health it had.                                      *)
C30_ShooterUnharmed ==
    [][(/\ pc = "projectiles"
        /\ todo # <<>>
        /\ has_id(projectiles, Head(todo))
        /\ projectiles[index_of(projectiles, Head(todo))].type = "boss_fire")
        => \A i \in 1..Len(enemies) :
                enemies[i].type = "boss"
                => \E j \in 1..Len(enemies') :
                        /\ enemies'[j].id = enemies[i].id
                        /\ enemies'[j].health = enemies[i].health]_vars

\* The enemies that have less health after the step, or have left the list.
harmed ==
    {i \in 1..Len(enemies) :
        \A j \in 1..Len(enemies') :
            enemies'[j].id = enemies[i].id => enemies'[j].health < enemies[i].health}

(* C31: a turn of the projectile loop applies damage to at most one        *)
(* entity: to the player or to one enemy, never to the player and an       *)
(* enemy and never to two enemies.                                         *)
C31_OneHitPerProjectile ==
    [][(pc = "projectiles" /\ todo # <<>>)
        => Cardinality(harmed) + (IF player'.health < player.health THEN 1 ELSE 0)
                <= 1]_vars

-----------------------------------------------------------------------------
(* Ice golems near the start of level 2, 70 frames after the spawn of      *)
(* frame 2700: one stands on the surface within firing range of the        *)
(* player, or one was spawned left of the world, where no block is, and    *)
(* has been falling since.  Nobody touches the controls.                   *)

GolemFrames == 123

\* The frames since the spawn
FallFrames == 70

\* The frame of the snapshot
GolemStartTime == 2700 + FallFrames

GolemScenes == {"standing", "falling"}

\* The golem of the scene; the falling one was spawned at x = -50 and has
\* walked toward the player and fallen for FallFrames frames.
golem_of(scene, id) ==
    IF scene = "standing"
    THEN [Enemy(id, Px(250), StandingY, "ice_golem", 1) EXCEPT
            !.on_ground = TRUE, !.direction = 0 - 1,
            !.vel_x = 0 - (7 * U) \div 20]
    ELSE [Enemy(id, Px(0 - 50) + FallFrames * ((7 * U) \div 20),
                Px(SCREEN_HEIGHT - TILE_SIZE * 5)
                    + (GRAVITY * FallFrames * (FallFrames + 1)) \div 2,
                "ice_golem", 1) EXCEPT
            !.vel_x = (7 * U) \div 20,
            !.vel_y = GRAVITY * FallFrames]

GolemInit ==
    /\ world = [add_blocks(EmptyWorld, SpawnCells, 1) EXCEPT
                    !.goal_flag = generate_level_2(1).goal_flag]
    /\ next_id = Len(SpawnCells) + 2
    /\ player = [Player(Px(100), StandingY) EXCEPT !.on_ground = TRUE]
    /\ \E scene \in GolemScenes : enemies = <<golem_of(scene, Len(SpawnCells) + 1)>>
    /\ items = <<>>
    /\ projectiles = <<>>
    /\ main = [MainStart EXCEPT !.current_level = 2, !.game_time = GolemStartTime]
    /\ pc = "events"
    /\ todo = <<>>
    /\ raised = "none"
    /\ block_refs = {}
    /\ entity = None

GolemNext ==
    \/ BeginFrame(FALSE, FALSE, GolemStartTime + GolemFrames)
    \/ \E enemy_type \in {"zombie"} : Spawn(enemy_type, 1, 200, 0)
    \/ BreakBlock(0, 0)
    \/ PlaceBlock(0, 0)
    \/ UpdatePlayer
    \/ \E draw \in LevelDraws : UpdateEnemy("jump", FALSE, draw)
    \/ EnemiesDone
    \/ \E draw \in LevelDraws : UpdateProjectile(draw)
    \/ EndFrame

SpecGolem == GolemInit /\ [][GolemNext]_vars

\* The projectile whose turn of the projectile loop is next, or None
next_projectile ==
    IF pc = "projectiles" /\ todo # <<>> /\ has_id(projectiles, Head(todo))
    THEN projectiles[index_of(projectiles, Head(todo))] ELSE None

(* C32: a projectile is removed no later than 60 frames after it was       *)
(* created: it is created with lifetime 60, every frame from the one of    *)
(* its creation on takes one off its lifetime in its turn of the           *)
(* projectile loop (so at the end of a frame every projectile has at most  *)
(* 59 left), nothing else changes its lifetime, and the turn in which the  *)
(* lifetime reaches 0 removes it and leaves the health of the player and   *)
(* the enemies, and the lists of enemies and items, as they were.          *)
C32_ProjectileLifetime ==
    [][/\ \A j \in 1..Len(projectiles') :
            /\ projectiles'[j].lifetime >= 1
            /\ has_id(projectiles, projectiles'[j].id)
                => projectiles'[j].lifetime
                    = projectiles[index_of(projectiles, projectiles'[j].id)].lifetime
                        - (IF next_projectile # None
                              /\ next_projectile.id = projectiles'[j].id
                           THEN 1 ELSE 0)
            /\ ~has_id(projectiles, projectiles'[j].id)
                => projectiles'[j].lifetime = 60
            /\ pc' = "events" => projectiles'[j].lifetime <= 59
       /\ (next_projectile # None /\ next_projectile.lifetime = 1)
            => /\ ~has_id(projectiles', next_projectile.id)
               /\ player' = player
               /\ enemies' = enemies
               /\ items' = items]_vars

\* A projectile that has missed everybody for 59 frames is about to have
\* its last turn of the projectile loop.
C32_Witness ==
    /\ next_projectile # None
    /\ next_projectile.lifetime = 1

\* The ice golem whose Enemy.update the enemy loop runs next, or None
next_golem ==
    IF pc = "enemies" /\ todo # <<>> /\ has_id(enemies, Head(todo))
          /\ enemies[index_of(enemies, Head(todo))].type = "ice_golem"
    THEN enemies[index_of(enemies, Head(todo))] ELSE None

(* C33: in every update in which an ice golem fires a projectile (it is    *)
(* off cooldown and within 200 of the player) its AI sets its horizontal   *)
(* velocity to 0.                                                          *)
C33_GolemHoldsPosition ==
    (next_golem # None /\ normal_behaviour(next_golem, player, FALSE).shots # <<>>)
        => normal_behaviour(next_golem, player, FALSE).e.vel_x = 0

(* C34: an ice golem fires only in its own update, when its idle_timer is  *)
(* exhausted (<= 0) and the player is less than 200 away horizontally; the *)
(* projectile flies horizontally (vel_y = 0) at 5 toward the player; the   *)
(* firing update leaves idle_timer at 119, every other update of the golem *)
(* takes one off it and no other step changes it, so two shots of one      *)
(* golem are at least 120 frames apart: in the scenario the golem fires in *)
(* the second frame and next 120 frames later.                             *)
C34_GolemFiresOnCooldown ==
    [][/\ Len(projectiles') > Len(projectiles)
            => /\ next_golem # None
               /\ next_golem.idle_timer <= 0
               /\ Abs(next_golem.x - player.x) < Px(200)
               /\ Len(projectiles') = Len(projectiles) + 1
               /\ projectiles'[Len(projectiles')].vel_y = 0
               /\ projectiles'[Len(projectiles')].vel_x
                    = IF player.x < next_golem.x THEN Px(0 - 5) ELSE Px(5)
               /\ \A j \in 1..Len(enemies') :
                    enemies'[j].id = next_golem.id => enemies'[j].idle_timer = 119
               /\ (main.game_time - GolemStartTime) % 120 = 2
       /\ \A i \in 1..Len(enemies) : \A j \in 1..Len(enemies') :
            (enemies[i].type = "ice_golem" /\ enemies'[j].id = enemies[i].id)
            => IF next_golem # None /\ next_golem.id = enemies[i].id
               THEN \/ enemies'[j].idle_timer = enemies[i].idle_timer - 1
                    \/ Len(projectiles') > Len(projectiles)
               ELSE enemies'[j].idle_timer = enemies[i].idle_timer]_vars

\* The golem has just fired for the second time, 120 frames after the
\* first.
C34_Witness ==
    /\ pc = "enemies"
    /\ projectiles # <<>>
    /\ main.game_time = GolemStartTime + 122
    /\ \E i \in 1..Len(enemies) : enemies[i].idle_timer = 119

-----------------------------------------------------------------------------
(* Entity.update_physics beside a ledge: the floor row with one stone      *)
(* block standing on it, and an entity that moves right at walking speed   *)
(* and comes down beside the block, its feet already below the block's     *)
(* top.  The entity is followed until it has left the floor.               *)

\* The column of the block on the floor
LedgeColumn == 5

\* How far below the block's top the entity's bottom edge starts
LedgeDepths == {Px(5), Px(20), Px(35)}

\* How far left of the block the entity's right edge starts
LedgeGaps == {Px(1), Px(2), Px(6)}

LedgeWorld ==
    add_block(FloorWorld(1),
              Block(FloorColumns + 1, Px(LedgeColumn * TILE_SIZE), FloorY - TILE, "stone"))

LedgeInit ==
    /\ world = LedgeWorld
    /\ \E depth \in LedgeDepths, gap \in LedgeGaps, vel_y \in {0, Px(2)} :
          entity = [Entity(Px(LedgeColumn * TILE_SIZE) - Px(PLAYER_SIZE) - gap,
                           FloorY - TILE + depth - (Px(PLAYER_SIZE) * 3) \div 2,
                           Px(PLAYER_SIZE), (Px(PLAYER_SIZE) * 3) \div 2)
                        EXCEPT !.vel_x = Px(3), !.vel_y = vel_y]
    /\ block_refs = {}
    /\ raised = "none"
    /\ next_id = FloorColumns + 2
    /\ NoGame

\* One call of update_physics, while the entity is over the floor
LedgeStep ==
    /\ entity.x < Px(FloorColumns * TILE_SIZE)
    /\ entity' = update_physics(entity, world)
    /\ UNCHANGED <<world, block_refs, raised, next_id, gameVars>>

SpecLedge == LedgeInit /\ [][LedgeStep]_vars

(* C35: update_physics lands the entity on a block (snaps its bottom to    *)
(* the block's top and sets on_ground) only if the entity's bottom edge    *)
(* before the step's displacement was at or above the block's top: an      *)
(* entity that comes down beside a block and runs into its side is not     *)
(* put on top of it.                                                       *)
C35_LandingOnlyFromAbove ==
    [][\A i \in 1..Len(world.blocks) :
            (/\ check_collision(after_move(entity), world.blocks[i])
             /\ entity'.on_ground
             /\ entity'.y + entity'.height = world.blocks[i].y)
            => entity.y + entity.height <= world.blocks[i].y]_vars

-----------------------------------------------------------------------------
(* The attack key pressed at will, any number of times in a frame, for     *)
(* more than one cooldown: level 2, the player within reach of the boss,   *)
(* which is at rest and stays so.                                          *)

CooldownFrames == 22

\* The frame of the snapshot
CooldownStartTime == 2470

CooldownInit ==
    /\ world = generate_level_2(1)
    /\ next_id = Len(Level2Cells) + 2
    /\ player = [Player(boss_x - Px(403), StandingY) EXCEPT !.on_ground = TRUE]
    /\ enemies = <<resting_boss(Len(Level2Cells) + 1)>>
    /\ items = <<>>
    /\ projectiles = <<>>
    /\ main = [MainStart EXCEPT !.current_level = 2, !.game_time = CooldownStartTime]
    /\ pc = "events"
    /\ todo = <<>>
    /\ raised = "none"
    /\ block_refs = {}
    /\ entity = None

CooldownNext ==
    \/ \E key \in {"f", "escape"} : KeyDown(key, TRUE, 0, LevelDraws)
    \/ IdleFrame
    \/ BeginFrame(FALSE, FALSE, CooldownStartTime + CooldownFrames)
    \/ \E enemy_type \in {"zombie"} : Spawn(enemy_type, 1, 200, 0)
    \/ BreakBlock(0, 0)
    \/ PlaceBlock(0, 0)
    \/ UpdatePlayer
    \/ \E draw \in LevelDraws : UpdateEnemy("jump", FALSE, draw)
    \/ EnemiesDone
    \/ EndFrame

SpecCooldown == CooldownInit /\ [][CooldownNext]_vars

(* C36: an attack request made while attack_cooldown > 0 harms no enemy    *)
(* and leaves player, enemies and items as they were; an attack that harms *)
(* an enemy starts with the cooldown at 0 or less and leaves it at 20; the *)
(* cooldown goes down only in player.update, by one per simulated frame.   *)
(* So two attacks that apply damage are at least 20 simulated frames       *)
(* apart: the boss, which loses 5 per hit, has lost 5 * n only when        *)
(* 20 * (n - 1) frames have been simulated.                                *)
C36_AttackCooldown ==
    [][/\ (pc = "events" /\ player.attack_cooldown > 0)
            => /\ harmed = {}
               /\ player' = player /\ enemies' = enemies /\ items' = items
       /\ harmed # {}
            => /\ pc = "events"
               /\ player.attack_cooldown <= 0
               /\ player'.attack_cooldown = 20
       /\ player'.attack_cooldown < player.attack_cooldown
            => /\ pc = "player"
               /\ player'.attack_cooldown = player.attack_cooldown - 1
       /\ \A j \in 1..Len(enemies') :
            (enemies'[j].type = "boss" /\ enemies'[j].health < 200)
            => (main'.game_time - CooldownStartTime) * 5
                    >= 20 * (200 - enemies'[j].health - 5)]_vars

\* The second attack that applied damage has just been made, in the events
\* of the 20th frame after the first.
C36_Witness ==
    /\ pc = "events"
    /\ player.attack_cooldown = 20
    /\ main.game_time = CooldownStartTime + 20
    /\ enemies[1].health = 190
-----------------------------------------------------------------------------
(* Placing, in the digging runs: the right button is held over the open    *)
(* shaft, over the stone and the bedrock, and, once the stone is dug out    *)
(* and the player has dropped into its cell, over the player.               *)

\* C37: a place step either leaves world and player as they are, or appends
\* exactly one block: of the selected kind, at a tile-aligned position that
\* no block of the world holds and that does not overlap the player, while
\* the count of that kind, which was positive, drops by one and nothing else
\* of the player changes.  No other step adds a block.
C37_PlaceOnFreeAlignedCell ==
    [][/\ pc = "place"
            => \/ world' = world /\ player' = player
               \/ /\ Len(world'.blocks) = Len(world.blocks) + 1
                  /\ SubSeq(world'.blocks, 1, Len(world.blocks)) = world.blocks
                  /\ LET new_block == world'.blocks[Len(world'.blocks)]
                     IN  /\ new_block.type = player.selected_block
                         /\ new_block.x % TILE = 0
                         /\ new_block.y % TILE = 0
                         /\ \A i \in 1..Len(world.blocks) :
                                ~(world.blocks[i].x = new_block.x
                                    /\ world.blocks[i].y = new_block.y)
                         /\ ~(/\ new_block.x < player.x + player.width
                              /\ new_block.x + TILE > player.x
                              /\ new_block.y < player.y + player.height
                              /\ new_block.y + TILE > player.y)
                  /\ main.placing_block
                  /\ player.inventory[player.selected_block] > 0
                  /\ player' = [player EXCEPT
                                  !.inventory[player.selected_block] = @ - 1]
       /\ Len(world'.blocks) > Len(world.blocks) => pc = "place"]_vars

\* The place step has just put a grass block into the open shaft above the
\* player: one block more than generated, one grass less than at the start.
C37_Witness ==
    /\ pc = "player"
    /\ Len(world.blocks) = Len(ShaftCells) + 1
    /\ world.blocks[Len(world.blocks)].type = "grass"
    /\ world.blocks[Len(world.blocks)].x = Px(2 * TILE_SIZE)
    /\ world.blocks[Len(world.blocks)].y = Px(SCREEN_HEIGHT + TILE_SIZE * 6)
    /\ player.inventory["grass"] = StartInventory["grass"]
-----------------------------------------------------------------------------
(* The enemy limit.  A run starts one frame before a spawn frame, from one *)
(* of three kinds of snapshot: level 1 with four or five zombies around    *)
(* the player; level 2 with the boss and six or seven zombies, the player  *)
(* a few pixels short of the line where spawning stops or on it; and the   *)
(* level-complete screen of level 1 with five zombies at the flag.         *)

\* The frames a run plays after the snapshot.
CapFrames == 2

\* The frame of the snapshot: the frame before the eleventh spawn frame.
CapStartTime == 3299

\* Line 1217: where spawning stops in level 2
spawn_limit_x == Px(WORLD_WIDTH - BOSS_ARENA_WIDTH - SCREEN_WIDTH)

\* Line 1220: the limit on len(enemies)
enemy_limit(current_level) == IF current_level = 1 THEN 5 ELSE 8

\* The surface row around the line (height variation taken as 0).
CapCells ==
    [i \in 1..14 |-> <<Px(6320 + i * TILE_SIZE), Px(SCREEN_HEIGHT - TILE_SIZE * 3), "grass">>]

CapScenes == {"level1", "level2", "complete"}

\* Zombies that have landed, ten pixels apart, from `x` to the right.
landed_zombies(count, id, x) ==
    [k \in 1..count |->
        [Enemy(id + k, x + (k - 1) * Px(10), StandingY, "zombie", 0)
            EXCEPT !.on_ground = TRUE]]

CapInit ==
    /\ \E scene \in CapScenes :
          CASE scene = "level1" ->
                  /\ world = [add_blocks(EmptyWorld, CapCells, 1) EXCEPT
                                !.goal_flag = GoalFlag(Px(WORLD_WIDTH - TILE_SIZE * 10),
                                                       Px(SCREEN_HEIGHT - TILE_SIZE * 4))]
                  /\ player = [Player(spawn_limit_x, StandingY) EXCEPT !.on_ground = TRUE]
                  /\ \E count \in {4, 5} :
                        enemies = landed_zombies(count, 50, spawn_limit_x + Px(200))
                  /\ main = [MainStart EXCEPT !.game_time = CapStartTime]
            [] scene = "level2" ->
                  /\ world = add_blocks(generate_level_2(1), CapCells, Len(Level2Cells) + 1)
                  /\ \E x \in {spawn_limit_x - Px(4), spawn_limit_x} :
                        player = [Player(x, StandingY) EXCEPT !.on_ground = TRUE]
                  /\ \E count \in {6, 7} :
                        enemies = <<resting_boss(50)>>
                                    \o landed_zombies(count, 50, spawn_limit_x + Px(200))
                  /\ main = [MainStart EXCEPT !.current_level = 2,
                                              !.game_time = CapStartTime]
            [] scene = "complete" ->
                  /\ world = [add_blocks(EmptyWorld, LevelCells, 1) EXCEPT
                                !.goal_flag = GoalFlag(Px(WORLD_WIDTH - TILE_SIZE * 10),
                                                       Px(SCREEN_HEIGHT - TILE_SIZE * 4))]
                  /\ player = [Player(Px(7605), StandingY) EXCEPT !.on_ground = TRUE]
                  /\ enemies = landed_zombies(5, 50, Px(7560))
                  /\ main = [MainStart EXCEPT !.level_complete = TRUE,
                                              !.game_time = CapStartTime]
    /\ next_id = 60
    /\ items = <<>>
    /\ projectiles = <<>>
    /\ pc = "events"
    /\ todo = <<>>
    /\ raised = "none"
    /\ block_refs = {}
    /\ entity = None

CapNext ==
    \/ \E key \in {"space", "escape"} : KeyDown(key, TRUE, 0, LevelDraws)
    \/ IdleFrame
    \/ \E right \in BOOLEAN : BeginFrame(FALSE, right, CapStartTime + CapFrames)
    \/ \E enemy_type \in enemy_types(main), side \in {0 - 1, 1},
          distance \in {200, 210} :
            Spawn(enemy_type, side, distance, 0)
    \/ BreakBlock(0, 0)
    \/ PlaceBlock(0, 0)
    \/ UpdatePlayer
    \/ \E draw \in LevelDraws : UpdateEnemy("jump", FALSE, draw)
    \/ EnemiesDone
    \/ \E draw \in LevelDraws : UpdateProjectile(draw)
    \/ EndFrame

SpecCap == CapInit /\ [][CapNext]_vars

\* The enemies of the next state that the current state does not have.
added_enemies == {j \in 1..Len(enemies') : ~has_id(enemies, enemies'[j].id)}

\* C38: there are never more than 5 enemies in level 1 nor more than 8,
\* the boss among them, in level 2.  A step that adds an enemy is either
\* the spawn step of a frame whose number is a multiple of 300, which adds
\* one ordinary enemy below the limit and, in level 2, with the player left
\* of WORLD_WIDTH - BOSS_ARENA_WIDTH - SCREEN_WIDTH, or the SPACE key on the
\* level-complete screen of level 1, which leaves the boss alone.
C38_EnemyCountBounded ==
    [][/\ Len(enemies) <= enemy_limit(main.current_level)
       /\ Len(enemies') <= enemy_limit(main'.current_level)
       /\ added_enemies # {}
            => \/ /\ pc = "spawn"
                  /\ main.game_time % 300 = 0
                  /\ Len(enemies) < enemy_limit(main.current_level)
                  /\ enemies' = Append(enemies, enemies'[Len(enemies')])
                  /\ enemies'[Len(enemies')].type # "boss"
                  /\ main.current_level = 2 => player.x < spawn_limit_x
               \/ /\ pc = "events"
                  /\ main.current_level = 1 /\ main.level_complete
                  /\ main'.current_level = 2
                  /\ Len(enemies') = 1 /\ enemies'[1].type = "boss"]_vars

\* The spawn step of frame 3300 has just brought level 2 to its limit: the
\* boss and seven ordinary enemies, the last one new.
C38_Witness ==
    /\ pc = "break"
    /\ main.current_level = 2
    /\ main.game_time = CapStartTime + 1
    /\ Len(enemies) = 8
    /\ enemies[1].type = "boss"
    /\ enemies[8].id = 60
-----------------------------------------------------------------------------
(* Level progress.  A run starts at the end of level 1 with the player     *)
(* inside the goal flag's rectangle or two pixels left of it, and plays a  *)
(* few frames with ESC, Y and SPACE pressed at will and the right key held *)
(* or not.                                                                  *)

\* The frames a run plays after the snapshot.
ProgressFrames == 2

ProgressKeys == {"escape", "y", "space"}

ProgressInit ==
    /\ world = [add_blocks(EmptyWorld, LevelCells, 1) EXCEPT
                    !.goal_flag = GoalFlag(Px(WORLD_WIDTH - TILE_SIZE * 10),
                                           Px(SCREEN_HEIGHT - TILE_SIZE * 4))]
    /\ next_id = Len(LevelCells) + 2
    /\ \E x \in {Px(7568), Px(7605)} :
          player = [Player(x, StandingY) EXCEPT !.on_ground = TRUE]
    /\ enemies = <<[Enemy(Len(LevelCells) + 1, Px(7680), StandingY, "zombie", 0)
                        EXCEPT !.on_ground = TRUE, !.direction = 0 - 1]>>
    /\ items = <<>>
    /\ projectiles = <<>>
    /\ main = [MainStart EXCEPT !.game_time = LevelStartTime]
    /\ pc = "events"
    /\ todo = <<>>
    /\ raised = "none"
    /\ block_refs = {}
    /\ entity = None

ProgressNext ==
    \/ \E key \in ProgressKeys, intro_ok \in BOOLEAN :
            KeyDown(key, intro_ok, 0, LevelDraws)
    \/ IdleFrame
    \/ \E right \in BOOLEAN : BeginFrame(FALSE, right, LevelStartTime + ProgressFrames)
    \/ \E enemy_type \in {"zombie"} : Spawn(enemy_type, 1, 200, 0)
    \/ BreakBlock(0, 0)
    \/ PlaceBlock(0, 0)
    \/ UpdatePlayer
    \/ \E draw \in LevelDraws : UpdateEnemy("jump", FALSE, draw)
    \/ EnemiesDone
    \/ EndFrame

SpecProgress == ProgressInit /\ [][ProgressNext]_vars

\* C39: current_level is 1 or 2 and no step lowers it.  A step that changes
\* it is the SPACE key taken with level_complete true in level 1, and leads
\* to level 2.  A step that makes level_complete true in level 1 is the Y
\* key, taken with the player overlapping the goal flag while the game is
\* not paused and not complete.
C39_LevelProgress ==
    [][/\ main.current_level \in {1, 2}
       /\ main'.current_level \in {1, 2}
       /\ main'.current_level >= main.current_level
       /\ main'.current_level # main.current_level
            => /\ main.current_level = 1 /\ main'.current_level = 2
               /\ main.level_complete
               /\ \E intro_ok \in BOOLEAN : KeyDown("space", intro_ok, 0, LevelDraws)
       /\ (main.current_level = 1 /\ ~main.level_complete /\ main'.level_complete)
            => /\ at_goal_flag(world, player)
               /\ ~main.paused /\ ~main'.paused
               /\ main'.current_level = 1
               /\ KeyDown("y", TRUE, 0, LevelDraws)]_vars

\* Level 2 has been entered from the level-complete screen of level 1, and
\* a frame of it has been played.
C39_Witness ==
    /\ main.current_level = 2
    /\ ~main.level_complete
    /\ main.game_time > LevelStartTime
    /\ Len(enemies) = 1 /\ enemies[1].type = "boss"
    /\ player.x = Px(100)

=============================================================================
